---- MODULE Spec2Model ----
(***************************************************************************)
(* countpy: the crawl engine and its backing index.                        *)
(*                                                                         *)
(*   - the process-plus-queue worker pool (modules/search/run.py,          *)
(*     modules/search/worker.py),                                          *)
(*   - the hash-keyed store adapter and the domain records (app/__init__,  *)
(*     app/models.py),                                                     *)
(*   - the request wrapper with the rate governor (lib/github/limit.py),   *)
(*   - the repository-contents walker (modules/github/client.py),          *)
(*   - the helper functions (modules/search/utils.py, app/models.py).      *)
(*                                                                         *)
(* Eight specifications over the same variables:                           *)
(*   Spec / FairSpec  the pool: main process, N workers, two queues        *)
(*   PkgSeqSpec       one process using the Package API on one object      *)
(*   FindSpec         one process calling Repository.find_packages         *)
(*   ReqSpec          one client issuing calls through the request wrapper *)
(*   WalkSpec / FairWalkSpec  one traversal of a repository's contents     *)
(*   EvalSpec         one call of a helper function on bounded inputs      *)
(*   PageSpec         one worker's searches with one GithubSearch object   *)
(*   SnapSpec         the main process polling Snapshot                    *)
(***************************************************************************)
EXTENDS Integers, Sequences, FiniteSets, TLC

(***************************************************************************)
(* Bounds of the model.                                                    *)
(***************************************************************************)
NumWorkers == 2

(* The commits of one Package object that are followed.                    *)
MaxCommits == 2

Workers == 1..NumWorkers

(***************************************************************************)
(* Values.  Python's None is Nil for text values; the queue sentinel None  *)
(* is QNone.  Names are tuples of characters so that str.lower() is a      *)
(* computation and not the identity.                                       *)
(***************************************************************************)
Nil == "<None>"
NoName == << >>
QNone == <<"<None>">>

SmallLetters ==
    << "a", "b", "c", "d", "e", "f", "g", "h", "i", "j", "k", "l", "m",
       "n", "o", "p", "q", "r", "s", "t", "u", "v", "w", "x", "y", "z" >>

CapitalLetters ==
    << "A", "B", "C", "D", "E", "F", "G", "H", "I", "J", "K", "L", "M",
       "N", "O", "P", "Q", "R", "S", "T", "U", "V", "W", "X", "Y", "Z" >>

(* str.lower and str.upper, character by character                         *)
SmallOf ==
    [ c \in { CapitalLetters[i] : i \in DOMAIN CapitalLetters } |->
        SmallLetters[CHOOSE i \in DOMAIN CapitalLetters : CapitalLetters[i] = c] ]

CapitalOf ==
    [ c \in { SmallLetters[i] : i \in DOMAIN SmallLetters } |->
        CapitalLetters[CHOOSE i \in DOMAIN SmallLetters : SmallLetters[i] = c] ]

LowerChar(c) == IF c \in DOMAIN SmallOf THEN SmallOf[c] ELSE c

UpperChar(c) == IF c \in DOMAIN CapitalOf THEN CapitalOf[c] ELSE c

Lower(s) == [i \in DOMAIN s |-> LowerChar(s[i])]

Upper(s) == [i \in DOMAIN s |-> UpperChar(s[i])]

(* Repository full names the search API can return: owner, repository.     *)
FullNames == { <<"A", "x">>, <<"a", "x">>, <<"b", "y">> }

(* HashType.genkey: '<prefix>:<name.lower()>'.  Each entity class has its   *)
(* own prefix, modelled by a store of its own (store_repo, store_pkg), so   *)
(* the key is the lower-cased name.                                         *)
genkey(name) == Lower(name)

(* Repository.name / Package.name: name.lower(), set by HashType.__init__.  *)
RepoNames == { Lower(n) : n \in FullNames }

PkgNames == { <<"p">>, <<"q">>, <<"m", "a", "i", "n">> }

(***************************************************************************)
(* The upstream API as the pool sees it.                                   *)
(***************************************************************************)
(* slice_period(): the time slices put on Queue-S at construction.         *)
TimeSlices == << <<"s", "1">>, <<"s", "2">> >>

(* The result items of search(created=slice).traverse(), in page order.    *)
SearchResult(sl) ==
    IF sl = <<"s", "1">> THEN << <<"A", "x">>, <<"b", "y">> >>
    ELSE << <<"a", "x">> >>

ItemId(fn) == IF Lower(fn) = <<"a", "x">> THEN "1" ELSE "2"
ItemUrl(fn) == IF Lower(fn) = <<"a", "x">> THEN "url-ax" ELSE "url-by"
ItemContentsUrl(fn) == IF Lower(fn) = <<"a", "x">> THEN "cu-ax" ELSE "cu-by"

(* ContentRetriever.traverse(contents_url): the files the walker yields.   *)
RepoTree(cu) ==
    IF cu = "cu-ax" THEN << "main.py", "README", "requirements.txt" >>
    ELSE IF cu = "cu-doc" THEN << "README" >>
    ELSE << "requirements.txt" >>

(* RepoFiles.is_pyfile / is_reqfile / Repository.expects_file              *)
is_pyfile(path) == path \in { "main.py", "app.py" }
is_reqfile(path) == path \in { "requirements.txt", "docs/requirements.txt" }
expects_file(path) == is_pyfile(path) \/ is_reqfile(path)

(* RepoFiles.parse_pyfile on the file's content: the imported names.       *)
Imports(path) ==
    IF path = "main.py" THEN { <<"p">> }
    ELSE IF path = "app.py"
    THEN { <<"p">>, <<"q">>, <<"m", "a", "i", "n">>, NoName }
    ELSE {}

(* RepoFiles.parse_reqfile on the file's content: name -> version.         *)
Requires(path) ==
    IF path = "requirements.txt" THEN { << <<"p">>, ">=1" >> }
    ELSE IF path = "docs/requirements.txt"
    THEN { << <<"q">>, "" >>, << <<"m", "a", "i", "n">>, ">=1" >> }
    ELSE {}

(* RepoFiles.pkgname_from_path: the top-level directory, or the basename   *)
(* without '.py' for a file at the root; lower-cased.                      *)
pkgname_from_path(path) ==
    IF path = "main.py" THEN <<"m", "a", "i", "n">> ELSE <<"a", "p", "p">>

VARIABLES
    mode,        \* 'both' | 'search-only' | 'retrieve-only'
    run_event,   \* SearchCode._run_event
    slices,      \* Queue-S (unused when mode = 'retrieve-only')
    repos,       \* Queue-R (unused when mode = 'search-only')
    exc_queue,   \* SearchCode._exc_queue
    sem,         \* app.sem, the write semaphore
    store_repo,  \* hashes 'repo:<name>'
    store_pkg,   \* hashes 'pkg:<name>'
    clock,       \* datetime.utcnow() as a logical instant
    wpc,         \* worker's position
    wloc,        \* worker's local variables
    pobj,        \* worker's Package object
    mpc,         \* main process' position
    held,        \* exception held by raise_worker_exceptions
    walked,      \* how many times the walker was started per repository
    glimit,      \* the client's GithubLimit object
    call,        \* the request wrapper's frame for the call in progress
    time,        \* time.time()
    sent,        \* when the last request was sent, if it succeeded (else 0)
    walk,        \* ContentRetriever.traverse: its locals and what it yielded
    eval,        \* one evaluation of a helper function: arguments and result
    find,        \* Repository.find_packages: its locals
    since,       \* the mutators called on pobj[1] since its last commit
    page,        \* Pagination: items, _links and what traverse yielded
    snap         \* Snapshot: interval, _lastsave and the saves requested

poolvars == << mode, run_event, slices, repos, exc_queue, sem, store_repo,
               store_pkg, clock, wpc, wloc, pobj, mpc, held, walked >>

reqvars == << glimit, call, time, sent >>

utilvars == << walk, eval, find, since, page, snap >>

vars == << poolvars, reqvars, utilvars >>


(***************************************************************************)
(* The store: one hash per key.  A field that was never written reads as   *)
(* None (Nil, NoName, 0, the empty collection) and use_val turns it into   *)
(* the entity's default.  Every hmset writes 'updated', so a key exists    *)
(* iff its 'updated' field is set.                                         *)
(***************************************************************************)
NoVer == "<absent>"
Versions == { "", ">=1" }
Paths == { "main.py", "app.py" }

EmptyRepoHash ==
    [ name |-> NoName, id |-> Nil, url |-> Nil, contents_url |-> Nil,
      retrieved |-> Nil, files |-> {}, packages |-> {}, updated |-> 0 ]

EmptyPkgHash ==
    [ name |-> NoName, repos |-> {},
      reqfiles |-> [ r \in RepoNames |-> NoVer ],
      pyfiles |-> [ r \in RepoNames |-> {} ],
      num_repos |-> 0, num_pyfiles |-> 0, num_reqfiles |-> 0, updated |-> 0 ]

(* exists that looks the name up as it is spelled.                         *)
exists_verbatim(store, name) ==
    IF name \in DOMAIN store THEN store[name].updated # 0 ELSE FALSE

(* HashType.exists: db.exists(genkey(name))                                *)
exists(store, name) == store[genkey(name)].updated # 0

(* Repository.store_val / use_val for 'retrieved': '1' / '0' <-> bool      *)
store_retrieved(value) == IF value = TRUE THEN "1" ELSE "0"
use_retrieved(value) == IF value = Nil THEN FALSE ELSE value # "0"

(* HashType.__init__ + __load for a Repository: name.lower(), then every   *)
(* field from getall(); a missing 'name' marks the record as new.          *)
LoadRepository(name) ==
    LET n == Lower(name)
        h == store_repo[genkey(n)]
    IN  [ name |-> n, id |-> h.id, url |-> h.url,
          contents_url |-> h.contents_url,
          retrieved |-> use_retrieved(h.retrieved),
          files |-> h.files, packages |-> h.packages, updated |-> h.updated,
          changes |-> IF h.name = NoName THEN { "name" } ELSE {},
          existed |-> h.name # NoName ]

NoRepoObj ==
    [ name |-> NoName, id |-> Nil, url |-> Nil, contents_url |-> Nil,
      retrieved |-> FALSE, files |-> {}, packages |-> {}, updated |-> 0,
      changes |-> {}, existed |-> FALSE ]

(* Repository.set_id / set_url / set_contents_url / set_retrieved          *)
set_id(o, v) ==
    IF v # o.id THEN [ o EXCEPT !.id = v, !.changes = @ \cup { "id" } ] ELSE o
set_url(o, v) ==
    IF v # o.url THEN [ o EXCEPT !.url = v, !.changes = @ \cup { "url" } ] ELSE o
set_contents_url(o, v) ==
    IF v # o.contents_url
    THEN [ o EXCEPT !.contents_url = v, !.changes = @ \cup { "contents_url" } ]
    ELSE o
set_retrieved(o, v) ==
    IF v # o.retrieved
    THEN [ o EXCEPT !.retrieved = v, !.changes = @ \cup { "retrieved" } ]
    ELSE o

(* Repository.add_file -> RepoFiles.__setitem__: a requirement file        *)
(* replaces the one held, any other path raises KeyError (returns False).  *)
add_file(o, path) ==
    IF is_pyfile(path)
    THEN [ o EXCEPT !.files = @ \cup { path }, !.changes = @ \cup { "files" } ]
    ELSE IF is_reqfile(path)
    THEN [ o EXCEPT !.files = { f \in @ : ~is_reqfile(f) } \cup { path },
                    !.changes = @ \cup { "files" } ]
    ELSE o

(* __commit that finds no field to write.                                  *)
RepoMapping_none(o) == {}

(* HashType.__commit: the dirty fields whose value is set.                 *)
RepoMapping(o) ==
    { f \in o.changes :
        CASE f = "id" -> o.id # Nil
          [] f = "url" -> o.url # Nil
          [] f = "contents_url" -> o.contents_url # Nil
          [] OTHER -> TRUE }

(* HashType.mset on a Repository: hmset of the mapping plus 'updated'.     *)
mset_repo(h, o, fields, now) ==
    [ name |-> IF "name" \in fields THEN o.name ELSE h.name,
      id |-> IF "id" \in fields THEN o.id ELSE h.id,
      url |-> IF "url" \in fields THEN o.url ELSE h.url,
      contents_url |-> IF "contents_url" \in fields THEN o.contents_url
                       ELSE h.contents_url,
      retrieved |-> IF "retrieved" \in fields THEN store_retrieved(o.retrieved)
                    ELSE h.retrieved,
      files |-> IF "files" \in fields THEN o.files ELSE h.files,
      packages |-> IF "packages" \in fields THEN o.packages ELSE h.packages,
      updated |-> now ]

(***************************************************************************)
(* Package                                                                 *)
(***************************************************************************)
(* HashType.__init__ + __load for a Package                                *)
LoadPackage(name) ==
    LET n == Lower(name)
        h == store_pkg[genkey(n)]
    IN  [ name |-> n, repos |-> h.repos, reqfiles |-> h.reqfiles,
          pyfiles |-> h.pyfiles, num_repos |-> h.num_repos,
          num_pyfiles |-> h.num_pyfiles, num_reqfiles |-> h.num_reqfiles,
          updated |-> h.updated,
          changes |-> IF h.name = NoName THEN { "name" } ELSE {},
          existed |-> h.name # NoName ]

NoPkgObj ==
    [ name |-> NoName, repos |-> {},
      reqfiles |-> [ r \in RepoNames |-> NoVer ],
      pyfiles |-> [ r \in RepoNames |-> {} ],
      num_repos |-> 0, num_pyfiles |-> 0, num_reqfiles |-> 0, updated |-> 0,
      changes |-> {}, existed |-> FALSE ]

(* Package.add_repo                                                        *)
add_repo(o, repo) ==
    IF repo \notin o.repos
    THEN [ o EXCEPT !.repos = @ \cup { repo }, !.num_repos = @ + 1,
                    !.changes = @ \cup { "repos", "num_repos" } ]
    ELSE o

(* add_pyfile that records the path without the repository.                *)
add_pyfile_norepo(o, path, repo) ==
    IF path \notin o.pyfiles[repo]
    THEN [ o EXCEPT !.pyfiles[repo] = @ \cup { path },
                    !.num_pyfiles = @ + 1,
                    !.changes = @ \cup { "pyfiles", "num_pyfiles" } ]
    ELSE o

(* Package.add_pyfile                                                      *)
add_pyfile(o, path, repo) ==
    LET o1 == add_repo(o, repo)
    IN  IF path \notin o1.pyfiles[repo]
        THEN [ o1 EXCEPT !.pyfiles[repo] = @ \cup { path },
                         !.num_pyfiles = @ + 1,
                         !.changes = @ \cup { "pyfiles", "num_pyfiles" } ]
        ELSE o1

(* Package.add_pkgver                                                      *)
add_pkgver(o, version, repo) ==
    LET o1 == add_repo(o, repo)
    IN  IF o1.reqfiles[repo] = NoVer
        THEN [ o1 EXCEPT !.reqfiles[repo] = version,
                         !.num_reqfiles = @ + 1,
                         !.changes = @ \cup { "reqfiles", "num_reqfiles" } ]
        ELSE [ o1 EXCEPT !.reqfiles[repo] = version,
                         !.changes = @ \cup { "reqfiles" } ]

(* HashType.mset on a Package: hmset of the mapping plus 'updated'.        *)
mset_pkg(h, o, fields, now) ==
    [ name |-> IF "name" \in fields THEN o.name ELSE h.name,
      repos |-> IF "repos" \in fields THEN o.repos ELSE h.repos,
      reqfiles |-> IF "reqfiles" \in fields THEN o.reqfiles ELSE h.reqfiles,
      pyfiles |-> IF "pyfiles" \in fields THEN o.pyfiles ELSE h.pyfiles,
      num_repos |-> IF "num_repos" \in fields THEN o.num_repos ELSE h.num_repos,
      num_pyfiles |-> IF "num_pyfiles" \in fields THEN o.num_pyfiles
                      ELSE h.num_pyfiles,
      num_reqfiles |-> IF "num_reqfiles" \in fields THEN o.num_reqfiles
                       ELSE h.num_reqfiles,
      updated |-> now ]

(* HashType.__commit after a successful mset                               *)
committed(o, now) == [ o EXCEPT !.updated = now, !.existed = TRUE ]

(* singlewrite without the semaphore: the wrapped call is entered at once. *)
SemFree_unguarded(s) == TRUE

(* singlewrite: 'with sem' enters when the semaphore's value is positive.  *)
SemFree(s) == s > 0

(***************************************************************************)
(* The pool (modules/search/run.py, modules/search/worker.py)              *)
(***************************************************************************)
Modes == { "both", "search-only", "retrieve-only" }

(* SearchCode.__init__: self.slices / self.repos are queues or None        *)
HasSlices == mode \in { "both", "search-only" }
HasRepos == mode \in { "both", "retrieve-only" }

InitLocal ==
    [ items |-> << >>, cur |-> NoName, repo |-> NoRepoObj, tree |-> << >>,
      added |-> FALSE ]

(* Records an earlier run left in the store.                               *)
StubHash(fn, cu, retr) ==
    [ name |-> Lower(fn), id |-> ItemId(fn), url |-> ItemUrl(fn),
      contents_url |-> cu, retrieved |-> retr, files |-> {}, packages |-> {},
      updated |-> 1 ]

StoreEmpty == [ k \in FullNames |-> EmptyRepoHash ]

StoreRetrieved ==
    [ StoreEmpty EXCEPT
        ![<<"a", "x">>] = StubHash(<<"a", "x">>, "cu-ax", Nil),
        ![<<"b", "y">>] = StubHash(<<"b", "y">>, "cu-by", "1") ]

StoreNoUrl ==
    [ StoreEmpty EXCEPT
        ![<<"a", "x">>] = StubHash(<<"a", "x">>, "cu-ax", Nil),
        ![<<"b", "y">>] = StubHash(<<"b", "y">>, "", Nil) ]

(* Both repositories found and none retrieved.  The package index is empty *)
(* (PkgsEmpty), or holds what find_packages committed for a/x in a run     *)
(* that ended before retrieve_files_in_repo committed a/x itself           *)
(* (PkgsOfAx).                                                             *)
StoreStubs ==
    [ StoreEmpty EXCEPT
        ![<<"a", "x">>] = StubHash(<<"a", "x">>, "cu-ax", Nil),
        ![<<"b", "y">>] = StubHash(<<"b", "y">>, "cu-by", Nil) ]

(* As StoreStubs, with b/y's stub pointing at a tree that holds no source   *)
(* and no requirement file.                                                *)
StoreDocs ==
    [ StoreStubs EXCEPT ![<<"b", "y">>] = StubHash(<<"b", "y">>, "cu-doc", Nil) ]

PkgsEmpty == [ k \in PkgNames |-> EmptyPkgHash ]

PkgsOfAx ==
    [ PkgsEmpty EXCEPT
        ![<<"p">>] =
            [ name |-> <<"p">>, repos |-> { <<"a", "x">> },
              reqfiles |-> [ EmptyPkgHash.reqfiles EXCEPT ![<<"a", "x">>] = ">=1" ],
              pyfiles |-> [ EmptyPkgHash.pyfiles EXCEPT ![<<"a", "x">>] = { "main.py" } ],
              num_repos |-> 1, num_pyfiles |-> 1, num_reqfiles |-> 1,
              updated |-> 1 ] ]

Scenarios ==
    { << "both", StoreEmpty, PkgsEmpty >>,
      << "both", StoreRetrieved, PkgsEmpty >>,
      << "search-only", StoreEmpty, PkgsEmpty >>,
      << "search-only", StoreRetrieved, PkgsEmpty >>,
      << "retrieve-only", StoreRetrieved, PkgsEmpty >>,
      << "retrieve-only", StoreNoUrl, PkgsEmpty >>,
      << "retrieve-only", StoreStubs, PkgsEmpty >>,
      << "retrieve-only", StoreDocs, PkgsEmpty >>,
      << "retrieve-only", StoreStubs, PkgsOfAx >> }

(* Repository.query_all(name_only=True): the stored keys, in the order     *)
(* db.keys() happens to return them.                                       *)
KeyOrders(store) ==
    LET ks == { k \in FullNames : store[k].updated # 0 }
    IN  { q \in [ 1..Cardinality(ks) -> ks ] :
            \A i, j \in DOMAIN q : i # j => q[i] # q[j] }

(***************************************************************************)
(* The rate governor and the request wrapper (lib/github/limit.py)         *)
(***************************************************************************)
MIN_REMAINING_OF_LIMIT == 1
MIN_DELAY_PER_REQUEST == 1
MORE_DELAY_IF_OUT_LIMIT == 1
SHORT_BREAK_DELAY == 1
MEDIUM_BREAK_DELAY == 3
LONG_BREAK_DELAY == 5
MAX_RETRIES_PER_REQUEST == 5

(* A new call may begin while time.time() is below MaxNow.                 *)
MaxNow == 7

(* The seconds the caller may spend between two calls.                     *)
IdleTimes == { 0, 1, 5 }

(* GithubLimit.__init__; _delay = None is 0 (a set _delay is at least 1).  *)
NewLimit == [ limit |-> 0, remaining |-> 0, reset |-> 0, last_use |-> 0, delay |-> 0 ]

(* The quota endpoint's answers: resources[key] = {limit, remaining,       *)
(* reset}, with reset - time a multiple of limit so that the division of    *)
(* _set_delay is exact.                                                    *)
QuotaLimits == { 1, 2 }
QuotaRemaining == { 1, 3 }
QuotaWindows == { 2, 6 }
QuotaReplies(t) ==
    { [ limit |-> l, remaining |-> r, reset |-> t + d ] :
        l \in QuotaLimits, r \in QuotaRemaining, d \in QuotaWindows }

(* What session.get(RATE_LIMIT_URL) / parse_response can raise.            *)
QuotaFailures == { "GithubException", "ConnectionError" }

(* GithubLimit.update                                                      *)
update(g, data) ==
    [ g EXCEPT !.limit = data.limit, !.remaining = data.remaining,
               !.reset = data.reset ]

(* GithubLimit._set_delay                                                  *)
set_delay(g, t) ==
    LET d == (g.reset - t) \div g.limit
    IN  [ g EXCEPT !.delay = IF d < MIN_DELAY_PER_REQUEST
                             THEN MIN_DELAY_PER_REQUEST ELSE d ]

(* GithubLimit.stale                                                       *)
stale(g, t) == g.reset <= t

(* GithubLimit.in_limit                                                    *)
in_limit(g) == g.remaining > MIN_REMAINING_OF_LIMIT

(* GithubLimit.delay: the seconds it sleeps.                               *)
delay(g, t) ==
    LET d == IF in_limit(g)
             THEN IF g.last_use # 0 /\ g.delay # 0
                  THEN g.last_use + g.delay - t ELSE 0
             ELSE g.reset - t + MORE_DELAY_IF_OUT_LIMIT
    IN  IF d > 0 THEN d ELSE 0

(* GithubLimit.use without the time stamp.                                 *)
use_nostamp(g, t) == [ g EXCEPT !.remaining = @ - 1 ]

(* GithubLimit.use                                                         *)
use(g, t) == [ g EXCEPT !.remaining = @ - 1, !.last_use = t ]

(* The classes a request can raise.  Retryable are the ones an except     *)
(* clause of the wrapper handles without raising; GithubExceptions are the *)
(* other subclasses of GithubException that parse_response raises;         *)
(* DataDecodeError derives from Exception only (lib/github/exceptions.py). *)
Retryable == { "RateLimitError", "AbuseLimitError", "NotFoundError", "Timeout" }
GithubExceptions ==
    { "GithubException", "LoginError", "UserAgentError", "BadRequestError",
      "RepoBlockedError", "LegalReasonError", "BlobTooLargeError",
      "ServiceUnavailableError", "GithubServerError" }
Outcomes == { "ok", "DataDecodeError" } \cup Retryable \cup GithubExceptions

(* The wrapper's frame: position, count, the exception caught or raised,   *)
(* the value returned; attempts, asks and resets count the requests sent,  *)
(* the quota requests and the client.reset() calls of the call.            *)
NoCall ==
    [ pc |-> "idle", count |-> 0, exc |-> Nil, result |-> Nil,
      attempts |-> 0, asks |-> 0, resets |-> 0 ]

(* No traversal and no helper evaluation in progress.                      *)
NoWalk == [ pc |-> "idle" ]

NoEval == [ fn |-> Nil ]

NoFind == [ pc |-> "idle" ]

NoPage == [ pc |-> "idle" ]

NoSnap == [ pc |-> "idle" ]

UtilIdle ==
    /\ walk = NoWalk
    /\ eval = NoEval
    /\ find = NoFind
    /\ since = {}
    /\ page = NoPage
    /\ snap = NoSnap

ReqIdle ==
    /\ glimit = NewLimit
    /\ call = NoCall
    /\ time = 1
    /\ sent = 0

PoolInit ==
    /\ ReqIdle
    /\ UtilIdle
    /\ \E sc \in Scenarios :
         mode = sc[1] /\ store_repo = sc[2] /\ store_pkg = sc[3]
    /\ run_event = FALSE
    /\ slices = IF HasSlices THEN TimeSlices ELSE << >>
    /\ repos \in IF HasRepos THEN KeyOrders(store_repo) ELSE { << >> }
    /\ exc_queue = << >>
    /\ sem = 1
    /\ clock = 2
    /\ wpc = [ w \in Workers |-> "wait" ]
    /\ wloc = [ w \in Workers |-> InitLocal ]
    /\ pobj = [ w \in Workers |-> NoPkgObj ]
    /\ mpc = "init"
    /\ held = Nil
    /\ walked = [ r \in RepoNames |-> 0 ]

(* SearchWorker.run: 'except AssertionError: pass' ends the worker, and    *)
(* 'except Exception' puts (name, exc) on the exception channel first.     *)
Raise(w, exc) ==
    /\ exc_queue' = IF exc = "AssertionError" THEN exc_queue
                    ELSE Append(exc_queue, exc)
    /\ wpc' = [ wpc EXCEPT ![w] = "done" ]

Goto(w, pc) == wpc' = [ wpc EXCEPT ![w] = pc ]

(* SearchWorker.run: self._event.wait()                                    *)
WorkerStart(w) ==
    /\ wpc[w] = "wait"
    /\ run_event
    /\ Goto(w, "search")
    /\ UNCHANGED << mode, run_event, slices, repos, exc_queue, sem, store_repo,
                    store_pkg, clock, wloc, pobj, mpc, held, walked >>
    /\ UNCHANGED << reqvars, utilvars >>

(* SearchWorker.search_repos: the loop test                                *)
SearchLoop(w) ==
    /\ wpc[w] = "search"
    /\ Goto(w, IF HasSlices /\ run_event THEN "s_get" ELSE "retrieve")
    /\ UNCHANGED << mode, run_event, slices, repos, exc_queue, sem, store_repo,
                    store_pkg, clock, wloc, pobj, mpc, held, walked >>
    /\ UNCHANGED << reqvars, utilvars >>

(* SearchWorker.search_repos: time_slice = self._slices.get(), a blocking  *)
(* get; then search_repos_in_slice sends the search request.               *)
SearchGet(w) ==
    /\ wpc[w] = "s_get"
    /\ slices # << >>
    /\ slices' = Tail(slices)
    /\ IF Head(slices) = QNone
       THEN /\ Goto(w, "retrieve")
            /\ UNCHANGED << wloc, exc_queue >>
       ELSE \E ok \in BOOLEAN :
              IF ok
              THEN /\ wloc' = [ wloc EXCEPT ![w].items = SearchResult(Head(slices)) ]
                   /\ Goto(w, "s_iter")
                   /\ UNCHANGED exc_queue
              ELSE /\ Raise(w, "RequestError")
                   /\ UNCHANGED wloc
    /\ UNCHANGED << mode, run_event, repos, sem, store_repo, store_pkg, clock,
                    pobj, mpc, held, walked >>
    /\ UNCHANGED << reqvars, utilvars >>

(* search_repos_in_slice: the next item of traverse(), the assertion on    *)
(* the run flag and the test Repository.exists(repo.full_name).            *)
SearchSkips(fn) == exists(store_repo, fn)

SearchObserve(w) ==
    /\ wpc[w] = "s_iter"
    /\ IF wloc[w].items = << >>
       THEN /\ Goto(w, "search")
            /\ UNCHANGED wloc
       ELSE IF ~run_event
       THEN /\ Goto(w, "done")
            /\ UNCHANGED wloc
       ELSE IF SearchSkips(Head(wloc[w].items))
       THEN /\ wloc' = [ wloc EXCEPT ![w].items = Tail(@) ]
            /\ UNCHANGED wpc
       ELSE /\ wloc' = [ wloc EXCEPT ![w].items = Tail(@), ![w].cur = Head(wloc[w].items) ]
            /\ Goto(w, "s_new")
    /\ UNCHANGED << mode, run_event, slices, repos, exc_queue, sem, store_repo,
                    store_pkg, clock, pobj, mpc, held, walked >>
    /\ UNCHANGED << reqvars, utilvars >>

(* A request made by a generator (the next page of the search, a listing   *)
(* or a file of the walk) raises: the exception leaves the worker's loop.  *)
(* The request wrapper raises what the request raised, or AssertionError   *)
(* from an assert on its way ('No limit data found.', 'Not a file').       *)
RequestFailures == { "RequestError", "AssertionError" }

RequestRaises(w) ==
    /\ \/ wpc[w] = "s_iter" /\ wloc[w].items # << >>
       \/ wpc[w] = "walk" /\ wloc[w].tree # << >>
    /\ \E exc \in RequestFailures : Raise(w, exc)
    /\ UNCHANGED << mode, run_event, slices, repos, sem, store_repo, store_pkg,
                    clock, wloc, pobj, mpc, held, walked >>
    /\ UNCHANGED << reqvars, utilvars >>

(* search_repos_in_slice: newrepo = Repository(full_name); set_id; set_url; *)
(* set_contents_url; commit_changes() up to the call of mset.              *)
SearchCreate(w) ==
    LET fn == wloc[w].cur
        o == set_contents_url(set_url(set_id(LoadRepository(fn), ItemId(fn)),
                                      ItemUrl(fn)), ItemContentsUrl(fn))
    IN  /\ wpc[w] = "s_new"
        /\ wloc' = [ wloc EXCEPT ![w].repo = o ]
        /\ Goto(w, IF o.changes # {} /\ RepoMapping(o) # {} THEN "s_lock" ELSE "s_put")
        /\ UNCHANGED << mode, run_event, slices, repos, exc_queue, sem,
                        store_repo, store_pkg, clock, pobj, mpc, held, walked >>
        /\ UNCHANGED << reqvars, utilvars >>

(* singlewrite around HashType.mset: 'with sem' is entered.                *)
MsetAcquire(w) ==
    /\ wpc[w] \in { "s_lock", "p_lock", "r_lock" }
    /\ SemFree(sem)
    /\ sem' = sem - 1
    /\ Goto(w, CASE wpc[w] = "s_lock" -> "s_write"
                 [] wpc[w] = "p_lock" -> "p_write"
                 [] wpc[w] = "r_lock" -> "r_write")
    /\ UNCHANGED << mode, run_event, slices, repos, exc_queue, store_repo,
                    store_pkg, clock, wloc, pobj, mpc, held, walked >>
    /\ UNCHANGED << reqvars, utilvars >>

(* HashType.mset inside the lock: db.hmset (retried by retrycon), then the *)
(* semaphore is released; a failure that retrycon gives up on propagates.  *)
StubWrite(w) ==
    LET o == wloc[w].repo
    IN  /\ wpc[w] = "s_write"
        /\ sem' = sem + 1
        /\ \E ok \in BOOLEAN :
             IF ok
             THEN /\ store_repo' = [ store_repo EXCEPT ![genkey(o.name)] =
                                        mset_repo(@, o, RepoMapping(o), clock) ]
                  /\ clock' = clock + 1
                  /\ wloc' = [ wloc EXCEPT ![w].repo = committed(o, clock) ]
                  /\ Goto(w, "s_put")
                  /\ UNCHANGED exc_queue
             ELSE /\ Raise(w, "StoreError")
                  /\ UNCHANGED << store_repo, clock, wloc >>
        /\ UNCHANGED << mode, run_event, slices, repos, store_pkg, pobj, mpc,
                        held, walked >>
        /\ UNCHANGED << reqvars, utilvars >>

(* search_repos_in_slice: self._repos.put(repo.full_name)                  *)
SearchPut(w) ==
    /\ wpc[w] = "s_put"
    /\ repos' = IF HasRepos THEN Append(repos, wloc[w].cur) ELSE repos
    /\ Goto(w, "s_iter")
    /\ UNCHANGED << mode, run_event, slices, exc_queue, sem, store_repo,
                    store_pkg, clock, wloc, pobj, mpc, held, walked >>
    /\ UNCHANGED << reqvars, utilvars >>

(* SearchWorker.retrieve_files: the loop test                              *)
RetrieveLoop(w) ==
    /\ wpc[w] = "retrieve"
    /\ Goto(w, IF HasRepos /\ run_event THEN "r_get" ELSE "done")
    /\ UNCHANGED << mode, run_event, slices, repos, exc_queue, sem, store_repo,
                    store_pkg, clock, wloc, pobj, mpc, held, walked >>
    /\ UNCHANGED << reqvars, utilvars >>

(* SearchWorker.retrieve_files: repo_name = self._repos.get(), blocking    *)
RetrieveGet(w) ==
    /\ wpc[w] = "r_get"
    /\ repos # << >>
    /\ repos' = Tail(repos)
    /\ IF Head(repos) = QNone
       THEN /\ Goto(w, "done")
            /\ UNCHANGED wloc
       ELSE /\ wloc' = [ wloc EXCEPT ![w].cur = Head(repos) ]
            /\ Goto(w, "r_load")
    /\ UNCHANGED << mode, run_event, slices, exc_queue, sem, store_repo,
                    store_pkg, clock, pobj, mpc, held, walked >>
    /\ UNCHANGED << reqvars, utilvars >>

(* retrieve_files_in_repo: repo = Repository(repo_name) and the two skips  *)
RetrieveSkips_urlonly(o) == o.contents_url \in { Nil, "" }

RetrieveSkips(o) == o.retrieved \/ o.contents_url \in { Nil, "" }

RetrieveLoad(w) ==
    LET o == LoadRepository(wloc[w].cur)
    IN  /\ wpc[w] = "r_load"
        /\ IF RetrieveSkips(o)
           THEN /\ wloc' = [ wloc EXCEPT ![w].repo = o ]
                /\ Goto(w, "retrieve")
                /\ UNCHANGED walked
           ELSE /\ wloc' = [ wloc EXCEPT ![w].repo = o,
                                         ![w].tree = RepoTree(o.contents_url),
                                         ![w].added = FALSE ]
                /\ walked' = [ walked EXCEPT ![o.name] = @ + 1 ]
                /\ Goto(w, "walk")
        /\ UNCHANGED << mode, run_event, slices, repos, exc_queue, sem,
                        store_repo, store_pkg, clock, pobj, mpc, held >>
        /\ UNCHANGED << reqvars, utilvars >>

(* retrieve_files_in_repo: one iteration of 'for file in traverse()', and  *)
(* after the loop the choice between find_packages() and nothing.          *)
Finalize_unset(o) == o

Finalize(o) == set_retrieved(o, TRUE)

(* A loop that stops at the first file and goes on to save the repository. *)
WalkFile_early(w) ==
    /\ wpc[w] = "walk"
    /\ wloc' = [ wloc EXCEPT ![w].repo = Finalize(wloc[w].repo) ]
    /\ Goto(w, "r_lock")
    /\ UNCHANGED << mode, run_event, slices, repos, exc_queue, sem,
                    store_repo, store_pkg, clock, pobj, mpc, held, walked >>
    /\ UNCHANGED << reqvars, utilvars >>

WalkFile(w) ==
    LET o == wloc[w].repo
        tree == wloc[w].tree
    IN  /\ wpc[w] = "walk"
        /\ IF tree = << >>
           THEN IF wloc[w].added
                THEN /\ Goto(w, "find")
                     /\ UNCHANGED wloc
                ELSE /\ wloc' = [ wloc EXCEPT ![w].repo = Finalize(o) ]
                     /\ Goto(w, "r_lock")
           ELSE IF ~run_event
           THEN /\ Goto(w, "done")
                /\ UNCHANGED wloc
           ELSE IF ~expects_file(Head(tree))
           THEN /\ wloc' = [ wloc EXCEPT ![w].tree = Tail(@) ]
                /\ UNCHANGED wpc
           ELSE /\ wloc' = [ wloc EXCEPT ![w].tree = Tail(@),
                                         ![w].repo = add_file(o, Head(tree)),
                                         ![w].added = TRUE ]
                /\ UNCHANGED wpc
        /\ UNCHANGED << mode, run_event, slices, repos, exc_queue, sem,
                        store_repo, store_pkg, clock, pobj, mpc, held, walked >>
        /\ UNCHANGED << reqvars, utilvars >>

(* local_packages that finds no local name.                                *)
local_packages_none(files) == {}

(* Repository.find_packages up to the first commit: the local names, the   *)
(* external package (the trees the pool walks name one) loaded and given   *)
(* the source paths and the requirement entry of this repository.          *)
local_packages(files) == { pkgname_from_path(f) : f \in { g \in files : is_pyfile(g) } }

ext_names(files) ==
    ( UNION { Imports(f) : f \in { g \in files : is_pyfile(g) } }
      \cup { e[1] : e \in UNION { Requires(f) : f \in { g \in files : is_reqfile(g) } } } )
    \ ( local_packages(files) \cup { NoName } )

RECURSIVE AddPyfiles(_, _, _)
AddPyfiles(o, paths, repo) ==
    IF paths = {} THEN o
    ELSE LET p == CHOOSE q \in paths : TRUE
         IN  AddPyfiles(add_pyfile(o, p, repo), paths \ { p }, repo)

RECURSIVE AddPkgvers(_, _, _)
AddPkgvers(o, vers, repo) ==
    IF vers = {} THEN o
    ELSE LET v == CHOOSE q \in vers : TRUE
         IN  AddPkgvers(add_pkgver(o, v, repo), vers \ { v }, repo)

find_packages_load(files, repo, pn) ==
    LET py == { f \in files : is_pyfile(f) /\ pn \in Imports(f) }
        rq == { e[2] : e \in { d \in UNION { Requires(f) : f \in { g \in files : is_reqfile(g) } } : d[1] = pn } }
    IN  AddPkgvers(AddPyfiles(LoadPackage(pn), py, repo), rq, repo)

(* Repository.find_packages after the commits: self.packages and its flag  *)
set_packages(o, names) ==
    [ o EXCEPT !.packages = names, !.changes = @ \cup { "packages" } ]

FindPackages(w) ==
    LET o == wloc[w].repo
        names == ext_names(o.files)
    IN  /\ wpc[w] = "find"
        /\ IF names = {}
           THEN /\ wloc' = [ wloc EXCEPT ![w].repo = Finalize(set_packages(o, names)) ]
                /\ Goto(w, "r_lock")
                /\ UNCHANGED pobj
           ELSE LET pn == CHOOSE n \in names : TRUE
                    pk == find_packages_load(o.files, o.name, pn)
                IN  /\ pobj' = [ pobj EXCEPT ![w] = pk ]
                    /\ IF pk.changes # {}
                       THEN /\ Goto(w, "p_lock")
                            /\ UNCHANGED wloc
                       ELSE /\ wloc' = [ wloc EXCEPT ![w].repo =
                                           Finalize(set_packages(o, names)) ]
                            /\ Goto(w, "r_lock")
        /\ UNCHANGED << mode, run_event, slices, repos, exc_queue, sem,
                        store_repo, store_pkg, clock, mpc, held, walked >>
        /\ UNCHANGED << reqvars, utilvars >>

(* pkg.commit_changes() inside the lock, then the rest of                  *)
(* retrieve_files_in_repo up to the call of mset for the repository.       *)
PkgWrite(w) ==
    LET pk == pobj[w]
        o == wloc[w].repo
    IN  /\ wpc[w] = "p_write"
        /\ sem' = sem + 1
        /\ \E ok \in BOOLEAN :
             IF ok
             THEN /\ store_pkg' = [ store_pkg EXCEPT ![genkey(pk.name)] =
                                      mset_pkg(@, pk, pk.changes, clock) ]
                  /\ clock' = clock + 1
                  /\ pobj' = [ pobj EXCEPT ![w] = committed(pk, clock) ]
                  /\ wloc' = [ wloc EXCEPT ![w].repo =
                                 Finalize(set_packages(o, ext_names(o.files))) ]
                  /\ Goto(w, "r_lock")
                  /\ UNCHANGED exc_queue
             ELSE /\ Raise(w, "StoreError")
                  /\ UNCHANGED << store_pkg, clock, pobj, wloc >>
        /\ UNCHANGED << mode, run_event, slices, repos, store_repo, mpc, held,
                        walked >>
        /\ UNCHANGED << reqvars, utilvars >>

(* A commit that keeps the semaphore when the write raises.                *)
RepoWrite_held(w) ==
    LET o == wloc[w].repo
    IN  /\ wpc[w] = "r_write"
        /\ \E ok \in BOOLEAN :
             IF ok
             THEN /\ store_repo' = [ store_repo EXCEPT ![genkey(o.name)] =
                                        mset_repo(@, o, RepoMapping(o), clock) ]
                  /\ clock' = clock + 1
                  /\ wloc' = [ wloc EXCEPT ![w].repo = committed(o, clock) ]
                  /\ sem' = sem + 1
                  /\ Goto(w, "retrieve")
                  /\ UNCHANGED exc_queue
             ELSE /\ Raise(w, "StoreError")
                  /\ UNCHANGED << store_repo, clock, wloc, sem >>
        /\ UNCHANGED << mode, run_event, slices, repos, store_pkg, pobj, mpc,
                        held, walked >>
        /\ UNCHANGED << reqvars, utilvars >>

(* repo.commit_changes() inside the lock                                   *)
RepoWrite(w) ==
    LET o == wloc[w].repo
    IN  /\ wpc[w] = "r_write"
        /\ sem' = sem + 1
        /\ \E ok \in BOOLEAN :
             IF ok
             THEN /\ store_repo' = [ store_repo EXCEPT ![genkey(o.name)] =
                                        mset_repo(@, o, RepoMapping(o), clock) ]
                  /\ clock' = clock + 1
                  /\ wloc' = [ wloc EXCEPT ![w].repo = committed(o, clock) ]
                  /\ Goto(w, "retrieve")
                  /\ UNCHANGED exc_queue
             ELSE /\ Raise(w, "StoreError")
                  /\ UNCHANGED << store_repo, clock, wloc >>
        /\ UNCHANGED << mode, run_event, slices, repos, store_pkg, pobj, mpc,
                        held, walked >>
        /\ UNCHANGED << reqvars, utilvars >>

WorkerStep(w) ==
    \/ WorkerStart(w)
    \/ SearchLoop(w)
    \/ SearchGet(w)
    \/ SearchObserve(w)
    \/ RequestRaises(w)
    \/ SearchCreate(w)
    \/ MsetAcquire(w)
    \/ StubWrite(w)
    \/ SearchPut(w)
    \/ RetrieveLoop(w)
    \/ RetrieveGet(w)
    \/ RetrieveLoad(w)
    \/ WalkFile(w)
    \/ FindPackages(w)
    \/ PkgWrite(w)
    \/ RepoWrite(w)

(* SearchCode.run: the workers are started, then the run flag is set.      *)
Run ==
    /\ mpc = "init"
    /\ run_event' = TRUE
    /\ mpc' = "loop"
    /\ UNCHANGED << mode, slices, repos, exc_queue, sem, store_repo, store_pkg,
                    clock, wpc, wloc, pobj, held, walked >>
    /\ UNCHANGED << reqvars, utilvars >>

(* wait_until_finish -> join_snapshot: the loop test and saveable(), which *)
(* depends on the time elapsed since the last snapshot.                    *)
JoinSnapshot ==
    /\ mpc = "loop"
    /\ IF ~run_event
       THEN mpc' = "finished"
       ELSE \E saveable \in BOOLEAN :
              mpc' = IF saveable THEN "snap_lock" ELSE "check"
    /\ UNCHANGED << mode, run_event, slices, repos, exc_queue, sem, store_repo,
                    store_pkg, clock, wpc, wloc, pobj, held, walked >>
    /\ UNCHANGED << reqvars, utilvars >>

(* singlewrite around Snapshot._do_save: 'with sem' is entered.            *)
SaveAcquire ==
    /\ mpc \in { "snap_lock", "end_lock" }
    /\ SemFree(sem)
    /\ sem' = sem - 1
    /\ mpc' = IF mpc = "snap_lock" THEN "snap_save" ELSE "end_save"
    /\ UNCHANGED << mode, run_event, slices, repos, exc_queue, store_repo,
                    store_pkg, clock, wpc, wloc, pobj, held, walked >>
    /\ UNCHANGED << reqvars, utilvars >>

(* Snapshot._do_save inside the lock, called from join_snapshot            *)
SnapshotSave ==
    /\ mpc = "snap_save"
    /\ sem' = sem + 1
    /\ \E ok \in BOOLEAN :
         IF ok
         THEN mpc' = "check" /\ UNCHANGED held
         ELSE mpc' = "raised" /\ held' = "StoreError"
    /\ UNCHANGED << mode, run_event, slices, repos, exc_queue, store_repo,
                    store_pkg, clock, wpc, wloc, pobj, walked >>
    /\ UNCHANGED << reqvars, utilvars >>

(* raise_worker_exceptions called from join_snapshot: get_nowait(); on an  *)
(* exception self.end() runs before 'raise exc'.                           *)
RaiseWorkerExceptions ==
    /\ mpc = "check"
    /\ IF exc_queue = << >>
       THEN /\ mpc' = "loop"
            /\ UNCHANGED << exc_queue, held >>
       ELSE /\ held' = Head(exc_queue)
            /\ exc_queue' = Tail(exc_queue)
            /\ mpc' = IF run_event THEN "stop" ELSE "raised"
    /\ UNCHANGED << mode, run_event, slices, repos, sem, store_repo, store_pkg,
                    clock, wpc, wloc, pobj, walked >>
    /\ UNCHANGED << reqvars, utilvars >>

(* The caller ends the pool: SearchCode.end() while the pool is running.   *)
End ==
    /\ mpc = "loop"
    /\ run_event
    /\ mpc' = "stop"
    /\ UNCHANGED << mode, run_event, slices, repos, exc_queue, sem, store_repo,
                    store_pkg, clock, wpc, wloc, pobj, held, walked >>
    /\ UNCHANGED << reqvars, utilvars >>

(* SearchCode.stop: self._run_event.clear()                                *)
StopClear ==
    /\ mpc = "stop"
    /\ run_event' = FALSE
    /\ mpc' = "put_s"
    /\ UNCHANGED << mode, slices, repos, exc_queue, sem, store_repo, store_pkg,
                    clock, wpc, wloc, pobj, held, walked >>
    /\ UNCHANGED << reqvars, utilvars >>

(* SearchCode.stop: self.slices.put_nowait(None)                           *)
StopPutSlices ==
    /\ mpc = "put_s"
    /\ slices' = IF HasSlices THEN Append(slices, QNone) ELSE slices
    /\ mpc' = "put_r"
    /\ UNCHANGED << mode, run_event, repos, exc_queue, sem, store_repo,
                    store_pkg, clock, wpc, wloc, pobj, held, walked >>
    /\ UNCHANGED << reqvars, utilvars >>

(* SearchCode.stop: self.repos.put_nowait(None)                            *)
StopPutRepos ==
    /\ mpc = "put_r"
    /\ repos' = IF HasRepos THEN Append(repos, QNone) ELSE repos
    /\ mpc' = "join"
    /\ UNCHANGED << mode, run_event, slices, exc_queue, sem, store_repo,
                    store_pkg, clock, wpc, wloc, pobj, held, walked >>
    /\ UNCHANGED << reqvars, utilvars >>

(* SearchCode.join_workers: worker.join() for every worker alive           *)
AllJoined == \A w \in Workers : wpc[w] = "done"

(* join_workers without worker.join(): the exception check comes at once  *)
JoinWorkers_nojoin ==
    /\ mpc = "join"
    /\ mpc' = "jcheck"
    /\ UNCHANGED << mode, run_event, slices, repos, exc_queue, sem, store_repo,
                    store_pkg, clock, wpc, wloc, pobj, held, walked >>
    /\ UNCHANGED << reqvars, utilvars >>

(* SearchCode.join_workers: every worker alive is joined                   *)
JoinWorkers ==
    /\ mpc = "join"
    /\ AllJoined
    /\ mpc' = "jcheck"
    /\ UNCHANGED << mode, run_event, slices, repos, exc_queue, sem, store_repo,
                    store_pkg, clock, wpc, wloc, pobj, held, walked >>
    /\ UNCHANGED << reqvars, utilvars >>

(* raise_worker_exceptions called from join_workers: an exception found    *)
(* here is raised through stop() and end(); otherwise end() goes on to     *)
(* snapshot.save(force=True).                                              *)
JoinCheck ==
    /\ mpc = "jcheck"
    /\ IF exc_queue = << >>
       THEN /\ mpc' = "end_lock"
            /\ UNCHANGED << exc_queue, held >>
       ELSE /\ held' = Head(exc_queue)
            /\ exc_queue' = Tail(exc_queue)
            /\ mpc' = "raised"
    /\ UNCHANGED << mode, run_event, slices, repos, sem, store_repo, store_pkg,
                    clock, wpc, wloc, pobj, walked >>
    /\ UNCHANGED << reqvars, utilvars >>

(* Snapshot._do_save inside the lock, called from end(); afterwards the    *)
(* exception held by raise_worker_exceptions, if any, is raised.           *)
EndSave ==
    /\ mpc = "end_save"
    /\ sem' = sem + 1
    /\ \E ok \in BOOLEAN :
         IF ok
         THEN mpc' = (IF held # Nil THEN "raised" ELSE "ended") /\ UNCHANGED held
         ELSE mpc' = "raised" /\ held' = "StoreError"
    /\ UNCHANGED << mode, run_event, slices, repos, exc_queue, store_repo,
                    store_pkg, clock, wpc, wloc, pobj, walked >>
    /\ UNCHANGED << reqvars, utilvars >>

MainStep ==
    \/ Run
    \/ JoinSnapshot
    \/ SaveAcquire
    \/ SnapshotSave
    \/ RaiseWorkerExceptions
    \/ StopClear
    \/ StopPutSlices
    \/ StopPutRepos
    \/ JoinWorkers
    \/ JoinCheck
    \/ EndSave

Next ==
    \/ MainStep
    \/ End
    \/ \E w \in Workers : WorkerStep(w)

Spec == PoolInit /\ [][Next]_vars

(* Every process that can take a step eventually takes one; the caller's   *)
(* end() is not forced to happen.                                          *)
FairSpec ==
    /\ Spec
    /\ WF_vars(MainStep)
    /\ \A w \in Workers : WF_vars(WorkerStep(w))

(***************************************************************************)
(* One client issuing calls through the request wrapper                    *)
(***************************************************************************)
PoolIdle ==
    /\ mode = "both"
    /\ store_repo = StoreEmpty
    /\ store_pkg = PkgsEmpty
    /\ run_event = FALSE
    /\ slices = << >>
    /\ repos = << >>
    /\ exc_queue = << >>
    /\ sem = 1
    /\ clock = 2
    /\ wpc = [ w \in Workers |-> "wait" ]
    /\ wloc = [ w \in Workers |-> InitLocal ]
    /\ pobj = [ w \in Workers |-> NoPkgObj ]
    /\ mpc = "init"
    /\ held = Nil
    /\ walked = [ r \in RepoNames |-> 0 ]

ReqInit == PoolIdle /\ ReqIdle /\ UtilIdle

Ended == call.pc \in { "returned", "raised" }

(* The caller invokes handler(client, ...), some time after the last call. *)
ReqCall ==
    /\ call.pc = "idle" \/ Ended
    /\ time < MaxNow
    /\ call' = [ NoCall EXCEPT !.pc = "ask" ]
    /\ \E d \in IdleTimes : time' = time + d
    /\ UNCHANGED glimit
    /\ UNCHANGED << sent, poolvars, utilvars >>

(* handler: client.limit.ask(session=client.session)                       *)
ReqAsk ==
    /\ call.pc = "ask"
    /\ IF stale(glimit, time)
       THEN \/ \E data \in QuotaReplies(time) :
                 /\ glimit' = set_delay(update(glimit, data), time)
                 /\ call' = [ call EXCEPT !.pc = "delay", !.asks = @ + 1 ]
            \/ \E e \in QuotaFailures :
                 /\ call' = [ call EXCEPT !.pc = "raised", !.exc = e,
                                          !.asks = @ + 1 ]
                 /\ UNCHANGED glimit
       ELSE /\ call' = [ call EXCEPT !.pc = "delay" ]
            /\ UNCHANGED glimit
    /\ UNCHANGED time
    /\ UNCHANGED << sent, poolvars, utilvars >>

(* handler: client.limit.delay(); count = 0                                *)
ReqDelay ==
    /\ call.pc = "delay"
    /\ time' = time + delay(glimit, time)
    /\ call' = [ call EXCEPT !.pc = "loop", !.count = 0 ]
    /\ UNCHANGED glimit
    /\ UNCHANGED << sent, poolvars, utilvars >>

(* handler: while count < MAX_RETRIES_PER_REQUEST; the function ends, and  *)
(* returns None, when the condition is false.                              *)
ReqLoop ==
    /\ call.pc = "loop"
    /\ IF call.count < MAX_RETRIES_PER_REQUEST
       THEN call' = [ call EXCEPT !.pc = "request" ]
       ELSE call' = [ call EXCEPT !.pc = "returned", !.result = Nil ]
    /\ UNCHANGED << glimit, time >>
    /\ UNCHANGED << sent, poolvars, utilvars >>

(* handler: result = request(client, ...); else: use(); return result      *)
ReqRequest ==
    /\ call.pc = "request"
    /\ \E out \in Outcomes :
         IF out = "ok"
         THEN /\ glimit' = use(glimit, time)
              /\ sent' = time
              /\ call' = [ call EXCEPT !.pc = "returned", !.result = "ok",
                                       !.attempts = @ + 1 ]
         ELSE /\ call' = [ call EXCEPT !.pc = "except", !.exc = out,
                                       !.attempts = @ + 1 ]
              /\ sent' = 0
              /\ UNCHANGED glimit
    /\ UNCHANGED time
    /\ UNCHANGED << poolvars, utilvars >>

(* The end of a handled except clause: client.delay(seconds), after      *)
(* client.reset() where the clause calls it, then count += 1.              *)
Retry(seconds, nreset) ==
    /\ time' = time + seconds
    /\ call' = [ call EXCEPT !.pc = "loop", !.count = @ + 1,
                             !.resets = @ + nreset ]

(* except RateLimitError: ask(force=True); delay(SHORT_BREAK_DELAY)        *)
ExceptRateLimit ==
    /\ call.pc = "except"
    /\ call.exc = "RateLimitError"
    /\ \/ \E data \in QuotaReplies(time) :
            /\ glimit' = set_delay(update(glimit, data), time)
            /\ time' = time + SHORT_BREAK_DELAY
            /\ call' = [ call EXCEPT !.pc = "loop", !.count = @ + 1,
                                     !.asks = @ + 1 ]
       \/ \E e \in QuotaFailures :
            /\ call' = [ call EXCEPT !.pc = "raised", !.exc = e,
                                     !.asks = @ + 1 ]
            /\ UNCHANGED << glimit, time >>
    /\ UNCHANGED << sent, poolvars, utilvars >>

(* except AbuseLimitError / (Timeout, ConnectionError): client.reset();    *)
(* delay(LONG_BREAK_DELAY).  GithubClient.reset opens a new session and    *)
(* calls ask_limit(force=True), the quota request of ask, which can raise. *)
ExceptReset ==
    /\ call.pc = "except"
    /\ call.exc \in { "AbuseLimitError", "Timeout" }
    /\ \/ \E data \in QuotaReplies(time) :
            /\ glimit' = set_delay(update(glimit, data), time)
            /\ time' = time + LONG_BREAK_DELAY
            /\ call' = [ call EXCEPT !.pc = "loop", !.count = @ + 1,
                                     !.asks = @ + 1, !.resets = @ + 1 ]
       \/ \E e \in QuotaFailures :
            /\ call' = [ call EXCEPT !.pc = "raised", !.exc = e,
                                     !.asks = @ + 1, !.resets = @ + 1 ]
            /\ UNCHANGED << glimit, time >>
    /\ UNCHANGED << sent, poolvars, utilvars >>

(* except GithubException: NotFoundError (and DataDecodeError, were it a   *)
(* GithubException) is retried after delay(MEDIUM_BREAK_DELAY); any other  *)
(* class is raised again.                                                  *)
ExceptGithub ==
    /\ call.pc = "except"
    /\ call.exc \in { "NotFoundError" } \cup GithubExceptions
    /\ IF call.exc = "NotFoundError"
       THEN Retry(MEDIUM_BREAK_DELAY, 0)
       ELSE /\ call' = [ call EXCEPT !.pc = "raised" ]
            /\ UNCHANGED time
    /\ UNCHANGED glimit
    /\ UNCHANGED << sent, poolvars, utilvars >>

(* An exception no except clause names (DataDecodeError) leaves handler.   *)
Uncaught ==
    /\ call.pc = "except"
    /\ call.exc \notin Retryable \cup GithubExceptions
    /\ call' = [ call EXCEPT !.pc = "raised" ]
    /\ UNCHANGED << glimit, time >>
    /\ UNCHANGED << sent, poolvars, utilvars >>

ReqNext ==
    \/ ReqCall
    \/ ReqAsk
    \/ ReqDelay
    \/ ReqLoop
    \/ ReqRequest
    \/ ExceptRateLimit
    \/ ExceptReset
    \/ ExceptGithub
    \/ Uncaught

ReqSpec == ReqInit /\ [][ReqNext]_vars

(***************************************************************************)
(* One process using the Package API on one object                         *)
(***************************************************************************)
(* The stored record of 'p' after two workers that both loaded it in the   *)
(* state PkgsOfAx have committed, b/y's worker first.                      *)
PkgsSkewed ==
    [ PkgsOfAx EXCEPT ![<<"p">>] =
        [ @ EXCEPT !.repos = RepoNames, !.num_repos = 2, !.num_reqfiles = 2,
                   !.updated = 3 ] ]

PkgSeqInit ==
    /\ mode = "retrieve-only"
    /\ store_repo = StoreStubs
    /\ store_pkg \in { PkgsEmpty, PkgsOfAx, PkgsSkewed }
    /\ run_event = FALSE
    /\ slices = << >>
    /\ repos = << >>
    /\ exc_queue = << >>
    /\ sem = 1
    /\ clock = 4
    /\ wpc = [ w \in Workers |-> "wait" ]
    /\ wloc = [ w \in Workers |-> InitLocal ]
    /\ pobj = [ w \in Workers |-> NoPkgObj ]
    /\ mpc = "init"
    /\ held = Nil
    /\ walked = [ r \in RepoNames |-> 0 ]
    /\ ReqIdle
    /\ UtilIdle

PkgFrame ==
    UNCHANGED << mode, run_event, slices, repos, exc_queue, sem, store_repo,
                 wpc, wloc, mpc, held, walked, reqvars, walk, eval, find, page,
                 snap >>

(* Package(name)                                                           *)
SeqLoad ==
    /\ pobj[1].name = NoName
    /\ \E n \in PkgNames : pobj' = [ pobj EXCEPT ![1] = LoadPackage(n) ]
    /\ UNCHANGED << store_pkg, clock, since >>
    /\ PkgFrame

SeqAddRepo ==
    /\ pobj[1].name # NoName
    /\ \E r \in RepoNames : pobj' = [ pobj EXCEPT ![1] = add_repo(@, r) ]
    /\ since' = since \cup { "add_repo" }
    /\ UNCHANGED << store_pkg, clock >>
    /\ PkgFrame

SeqAddPyfile ==
    /\ pobj[1].name # NoName
    /\ \E r \in RepoNames, path \in Paths :
         pobj' = [ pobj EXCEPT ![1] = add_pyfile(@, path, r) ]
    /\ since' = since \cup { "add_pyfile" }
    /\ UNCHANGED << store_pkg, clock >>
    /\ PkgFrame

SeqAddPkgver ==
    /\ pobj[1].name # NoName
    /\ \E r \in RepoNames, v \in Versions :
         pobj' = [ pobj EXCEPT ![1] = add_pkgver(@, v, r) ]
    /\ since' = since \cup { "add_pkgver" }
    /\ UNCHANGED << store_pkg, clock >>
    /\ PkgFrame

(* HashType.commit_changes: nothing without changes, else __commit hands   *)
(* the fields of _changes to mset; the write succeeds or raises.           *)
SeqCommit ==
    LET pk == pobj[1]
    IN  /\ pk.name # NoName
        /\ clock < 4 + MaxCommits
        /\ IF pk.changes = {}
           THEN UNCHANGED << store_pkg, clock, pobj, since >>
           ELSE \E ok \in BOOLEAN :
                  IF ok
                  THEN /\ store_pkg' = [ store_pkg EXCEPT ![genkey(pk.name)] =
                                           mset_pkg(@, pk, pk.changes, clock) ]
                       /\ clock' = clock + 1
                       /\ pobj' = [ pobj EXCEPT ![1] = committed(pk, clock) ]
                       /\ since' = {}
                  ELSE UNCHANGED << store_pkg, clock, pobj, since >>
        /\ PkgFrame

PkgSeqNext ==
    \/ SeqLoad
    \/ SeqAddRepo
    \/ SeqAddPyfile
    \/ SeqAddPkgver
    \/ SeqCommit

PkgSeqSpec == PkgSeqInit /\ [][PkgSeqNext]_vars

(***************************************************************************)
(* Repository.find_packages called by one process on a repository whose    *)
(* files are loaded, with nobody else writing to the store.                *)
(***************************************************************************)
(* The file sets a RepoFiles object can hold: any source files and at most *)
(* one requirement file.                                                   *)
AllPaths == Paths \cup { "requirements.txt", "docs/requirements.txt" }

FileSets ==
    { F \in SUBSET AllPaths : Cardinality({ f \in F : is_reqfile(f) }) <= 1 }

FindInit ==
    /\ mode = "retrieve-only"
    /\ store_repo = StoreStubs
    /\ store_pkg \in { PkgsEmpty, PkgsOfAx, PkgsSkewed }
    /\ run_event = FALSE
    /\ slices = << >>
    /\ repos = << >>
    /\ exc_queue = << >>
    /\ sem = 1
    /\ clock = 4
    /\ wpc = [ w \in Workers |-> "wait" ]
    /\ wloc = [ w \in Workers |-> InitLocal ]
    /\ pobj = [ w \in Workers |-> NoPkgObj ]
    /\ mpc = "init"
    /\ held = Nil
    /\ walked = [ r \in RepoNames |-> 0 ]
    /\ ReqIdle
    /\ walk = NoWalk
    /\ eval = NoEval
    /\ since = {}
    /\ page = NoPage
    /\ snap = NoSnap
    /\ \E r \in RepoNames, F \in FileSets :
         find = [ pc |-> "call",
                  repo |-> [ LoadRepository(r) EXCEPT !.files = F ],
                  ext_packages |-> << >>,
                  todo |-> {} ]

FindFrame ==
    UNCHANGED << mode, run_event, slices, repos, exc_queue, sem, store_repo,
                 wpc, wloc, pobj, mpc, held, walked, reqvars, walk, eval,
                 since, page, snap >>

(* find_packages, the two loops over the files: ext_packages maps each     *)
(* external name to its Package object, loaded on first use and given the  *)
(* source paths and the requirement entry of this repository.              *)
FindCollect ==
    LET o == find.repo
        names == ext_names(o.files)
    IN  /\ find.pc = "call"
        /\ find' = [ find EXCEPT
                       !.pc = "commit",
                       !.ext_packages =
                           [ n \in names |-> find_packages_load(o.files, o.name, n) ],
                       !.todo = names ]
        /\ UNCHANGED << store_pkg, clock >>
        /\ FindFrame

(* for pkg in ext_packages.values(): pkg.commit_changes()                  *)
FindCommit ==
    /\ find.pc = "commit"
    /\ \E n \in find.todo :
         LET pk == find.ext_packages[n]
         IN  IF pk.changes = {}
             THEN /\ find' = [ find EXCEPT !.todo = @ \ { n } ]
                  /\ UNCHANGED << store_pkg, clock >>
             ELSE \E ok \in BOOLEAN :
                    IF ok
                    THEN /\ store_pkg' = [ store_pkg EXCEPT ![genkey(pk.name)] =
                                             mset_pkg(@, pk, pk.changes, clock) ]
                         /\ clock' = clock + 1
                         /\ find' = [ find EXCEPT
                                        !.todo = @ \ { n },
                                        !.ext_packages[n] = committed(pk, clock) ]
                    ELSE /\ find' = [ find EXCEPT !.pc = "raised" ]
                         /\ UNCHANGED << store_pkg, clock >>
    /\ FindFrame

(* self.packages = list(ext_packages.keys()); self.set_change('packages')  *)
FindReturn ==
    /\ find.pc = "commit"
    /\ find.todo = {}
    /\ find' = [ find EXCEPT
                   !.pc = "done",
                   !.repo = set_packages(@, DOMAIN find.ext_packages) ]
    /\ UNCHANGED << store_pkg, clock >>
    /\ FindFrame

FindNext ==
    \/ FindCollect
    \/ FindCommit
    \/ FindReturn

FindSpec == FindInit /\ [][FindNext]_vars

(***************************************************************************)
(* The repository-contents walker (modules/github/client.py)               *)
(*                                                                         *)
(* Paths are tuples of characters, so that the exclusion pattern and       *)
(* urllib's quote() are computed character by character.                   *)
(***************************************************************************)
Digits == { "0", "1", "2", "3", "4", "5", "6", "7", "8", "9" }

LowerLetters ==
    { "a", "b", "c", "d", "e", "f", "g", "h", "i", "j", "k", "l", "m",
      "n", "o", "p", "q", "r", "s", "t", "u", "v", "w", "x", "y", "z" }

UpperLetters ==
    { "A", "B", "C", "D", "E", "F", "G", "H", "I", "J", "K", "L", "M",
      "N", "O", "P", "Q", "R", "S", "T", "U", "V", "W", "X", "Y", "Z" }

(* The characters of the class \w                                        *)
WordChars == LowerLetters \cup UpperLetters \cup Digits \cup { "_" }

AllIn(s, S) == \A k \in DOMAIN s : s[k] \in S

StartsWith(s, pre) == Len(s) >= Len(pre) /\ SubSeq(s, 1, Len(pre)) = pre

EndsWith(s, suf) ==
    Len(s) >= Len(suf) /\ SubSeq(s, Len(s) - Len(suf) + 1, Len(s)) = suf

(* The literal alternatives of ContentRetriever._excludes.                 *)
ExcludedLiterals ==
    { << "s", "i", "t", "e", "-", "p", "a", "c", "k", "a", "g", "e", "s" >>,
      << "_", "_", "p", "y", "c", "a", "c", "h", "e", "_", "_" >>,
      << "s", "t", "a", "t", "i", "c" >> }

(* [Pp]ython, [Pp]ip                                                     *)
PyStems ==
    { << "p", "y", "t", "h", "o", "n" >>, << "P", "y", "t", "h", "o", "n" >>,
      << "p", "i", "p" >>, << "P", "i", "p" >> }

(* The version suffix of the pattern: an optional hyphen, a run of digits, *)
(* then any number of groups made of a dot and a run of [0-9a-z].          *)
VersionSuffix(r) ==
    LET b == IF r # << >> /\ r[1] = "-" THEN Tail(r) ELSE r
    IN  /\ b # << >>
        /\ AllIn(b, Digits \cup LowerLetters \cup { "." })
        /\ b[Len(b)] # "."
        /\ \A k \in DOMAIN b : b[k] = "." => ( k > 1 /\ b[k - 1] # "." )
        /\ \A k \in DOMAIN b : ( \A m \in 1..k : b[m] # "." ) => b[k] \in Digits

(* The group of _excludes: word characters then 'venv'; one of the three   *)
(* literals; a dot then one or more word characters; [Pp]ython or [Pp]ip   *)
(* with an optional version suffix.                                        *)
MatchesExclude(x) ==
    \/ /\ EndsWith(x, << "v", "e", "n", "v" >>)
       /\ AllIn(SubSeq(x, 1, Len(x) - 4), WordChars)
    \/ x \in ExcludedLiterals
    \/ /\ Len(x) >= 2
       /\ x[1] = "."
       /\ AllIn(Tail(x), WordChars)
    \/ \E stem \in PyStems :
         /\ StartsWith(x, stem)
         /\ LET r == SubSeq(x, Len(stem) + 1, Len(x))
            IN  r = << >> \/ VersionSuffix(r)

(* ContentRetriever.is_excluded: _excludes.findall(path) is not empty; a   *)
(* match begins at the start of the path or after a '/', and ends at the   *)
(* end of the path or before a '/'.                                        *)
is_excluded(path) ==
    \E i \in 1..Len(path) :
      \E j \in i..Len(path) :
        /\ i = 1 \/ path[i - 1] = "/"
        /\ j = Len(path) \/ path[j + 1] = "/"
        /\ MatchesExclude(SubSeq(path, i, j))

(* urllib.parse.quote(path): letters, digits and '_.-~/' are kept, any     *)
(* other character becomes its percent escape.                             *)
QuoteChar(c) ==
    IF c \in WordChars \cup { ".", "-", "~", "/" }
    THEN << c >>
    ELSE CASE c = " " -> << "%", "2", "0" >>
           [] c = "+" -> << "%", "2", "B" >>

RECURSIVE quote(_)
quote(path) ==
    IF path = << >> THEN << >> ELSE QuoteChar(Head(path)) \o quote(Tail(path))

(* Directory names of the repositories walked.                             *)
DirNames ==
    { << "a" >>,
      << ".", "g" >>,
      << ".", "a", "-", "b" >>,
      << "v", "e", "n", "v" >>,
      << "a", "v", "e", "n", "v" >>,
      << "a", "-", "v", "e", "n", "v" >>,
      << "s", "t", "a", "t", "i", "c" >>,
      << "p", "i", "p", "-", "3", ".", "6" >>,
      << "a", " ", "b" >> }

FileName == << "f" >>

Dot == << "." >>

Join(dir, name) == dir \o << "/" >> \o name

(* The folder an entry is listed in; '.' for the entries of the root.      *)
Parent(path) ==
    LET slashes == { k \in DOMAIN path : path[k] = "/" }
    IN  IF slashes = {}
        THEN Dot
        ELSE SubSeq(path, 1, (CHOOSE k \in slashes : \A m \in slashes : m <= k) - 1)

(* ContentRetriever.retrieve(urljoin(contents_url, folder)): the entries   *)
(* of the folder, files and directories.                                   *)
Listing(folder) ==
    { [ path |-> p, type |-> "dir" ] :
        p \in { d \in walk.dirs : quote(Parent(d)) = folder } }
    \cup
    { [ path |-> p, type |-> "file" ] :
        p \in { f \in walk.files : quote(Parent(f)) = folder } }

Zed == << "z" >>

(* What the listing request of one folder ends with, every attempt alike:  *)
(* BadRequestError is raised again by the request wrapper; NotFoundError   *)
(* is retried and the wrapper returns None when its attempts are used up.  *)
ListingFailures == { "BadRequestError", "NotFoundError" }

(* traverse(contents_url) is called on a repository with two directories,  *)
(* a directory inside the first and a file at each level of the first; the *)
(* listing of at most one folder fails.                                    *)
WalkInit ==
    /\ PoolIdle
    /\ ReqIdle
    /\ eval = NoEval
    /\ find = NoFind
    /\ since = {}
    /\ page = NoPage
    /\ snap = NoSnap
    /\ \E top \in DirNames, sub \in DirNames :
       \E failing \in { NoName, Dot, quote(top), quote(Join(top, sub)) } :
       \E exc \in ListingFailures :
         walk = [ pc |-> "pop",
                  dirs |-> { top, Zed, Join(top, sub) },
                  files |-> { FileName, Join(top, FileName),
                              Join(Join(top, sub), FileName) },
                  failing |-> [ folder |-> failing, exc |-> exc ],
                  folders |-> << Dot >>,
                  traversed |-> {},
                  listed |-> << >>,
                  items |-> {},
                  yielded |-> {},
                  exc |-> Nil ]

WalkFrame == UNCHANGED << poolvars, reqvars, eval, find, since, page, snap >>

(* ContentRetriever.__retrieve(url) of a folder, then the walker's frame:  *)
(* BadRequestError is caught and the data is []; unpacking the None of an  *)
(* exhausted call raises TypeError, which nothing in traverse catches.     *)
Retrieve(w, folder) ==
    IF w.failing.folder # folder
    THEN [ w EXCEPT !.pc = "for", !.items = Listing(folder) ]
    ELSE IF w.failing.exc = "BadRequestError"
    THEN [ w EXCEPT !.pc = "for", !.items = {} ]
    ELSE [ w EXCEPT !.pc = "raised", !.exc = "TypeError" ]

(* folders.pop() in place of folders.popleft()                             *)
TraversePop_lifo ==
    /\ walk.pc = "pop"
    /\ walk.folders # << >>
    /\ LET folder == walk.folders[Len(walk.folders)]
       IN  walk' = Retrieve([ walk EXCEPT
                                !.folders = SubSeq(@, 1, Len(@) - 1),
                                !.traversed = @ \cup { folder },
                                !.listed = Append(@, folder) ],
                            folder)
    /\ WalkFrame

(* folder = folders.popleft(); traversed.add(folder); the folder is listed *)
TraversePop ==
    /\ walk.pc = "pop"
    /\ walk.folders # << >>
    /\ LET folder == Head(walk.folders)
       IN  walk' = Retrieve([ walk EXCEPT !.folders = Tail(@),
                                         !.traversed = @ \cup { folder },
                                         !.listed = Append(@, folder) ],
                            folder)
    /\ WalkFrame

(* popleft() raises IndexError: break                                      *)
TraverseBreak ==
    /\ walk.pc = "pop"
    /\ walk.folders = << >>
    /\ walk' = [ walk EXCEPT !.pc = "end" ]
    /\ WalkFrame

(* One entry of the listing: a file is yielded, an excluded directory is   *)
(* passed over, any other directory is quoted and appended to the deque    *)
(* unless it has been traversed.                                           *)
TraverseItem ==
    /\ walk.pc = "for"
    /\ \E item \in walk.items :
         LET rest == walk.items \ { item }
             path == quote(item.path)
         IN  walk' =
               IF item.type = "file"
               THEN [ walk EXCEPT !.items = rest,
                                  !.yielded = @ \cup { item.path } ]
               ELSE IF is_excluded(item.path)
               THEN [ walk EXCEPT !.items = rest ]
               ELSE IF path \notin walk.traversed
               THEN [ walk EXCEPT !.items = rest,
                                  !.folders = Append(@, path) ]
               ELSE [ walk EXCEPT !.items = rest ]
    /\ WalkFrame

(* The listing is exhausted: back to 'while True'                          *)
TraverseNext ==
    /\ walk.pc = "for"
    /\ walk.items = {}
    /\ walk' = [ walk EXCEPT !.pc = "pop" ]
    /\ WalkFrame

WalkNext ==
    \/ TraversePop
    \/ TraverseBreak
    \/ TraverseItem
    \/ TraverseNext

WalkSpec == WalkInit /\ [][WalkNext]_vars

(* The generator is driven by the worker's for loop, which keeps asking.   *)
FairWalkSpec == WalkSpec /\ WF_vars(WalkNext)

(***************************************************************************)
(* Helper functions of the search module (modules/search/utils.py)         *)
(*                                                                         *)
(* Time annotations are tuples of characters; a call's outcome is the      *)
(* exception raised (Nil if none) and the value returned.                  *)
(***************************************************************************)
(* The largest amount written in an annotation.                            *)
MaxAmount == 12

(* The attempts of a store operation whose outcomes are enumerated: one    *)
(* more than the wrapper can use.                                          *)
MaxAttempts == 7

DigitChars == << "0", "1", "2", "3", "4", "5", "6", "7", "8", "9" >>

DigitValue(c) == CHOOSE n \in 0..9 : DigitChars[n + 1] = c

(* int(amount)                                                             *)
RECURSIVE int(_)
int(ds) ==
    IF ds = << >>
    THEN 0
    ELSE 10 * int(SubSeq(ds, 1, Len(ds) - 1)) + DigitValue(ds[Len(ds)])

(* The decimal numeral of n, as the caller writes it.                      *)
RECURSIVE str(_)
str(n) ==
    IF n < 10
    THEN << DigitChars[n + 1] >>
    ELSE str(n \div 10) \o << DigitChars[(n % 10) + 1] >>

(* The characters of the class \s                                          *)
Spaces == { " " }

RECURSIVE lstrip(_)
lstrip(text) ==
    IF text # << >> /\ Head(text) \in Spaces THEN lstrip(Tail(text)) ELSE text

RECURSIVE rstrip(_)
rstrip(text) ==
    IF text # << >> /\ text[Len(text)] \in Spaces
    THEN rstrip(SubSeq(text, 1, Len(text) - 1))
    ELSE text

(* match_time_annotation: spaces, an optional run of the digits 1 to 9     *)
(* (as long as the rest still matches), spaces, one or more word           *)
(* characters, spaces.  The groups (amount, time_unit), or Nil if the text *)
(* does not match.                                                         *)
match_time_annotation(text) ==
    LET body == rstrip(lstrip(text))
        lead == CHOOSE k \in 0..Len(body) :
                  /\ \A m \in 1..k : body[m] \in Digits \ { "0" }
                  /\ k = Len(body) \/ body[k + 1] \notin Digits \ { "0" }
        unit(a) == lstrip(SubSeq(body, a + 1, Len(body)))
        fits == { a \in 0..lead : unit(a) # << >> /\ AllIn(unit(a), WordChars) }
    IN  IF fits = {}
        THEN Nil
        ELSE LET a == CHOOSE x \in fits : \A y \in fits : y <= x
             IN  << SubSeq(body, 1, a), unit(a) >>

(* factors of to_second                                                    *)
factors ==
    { [ factor |-> 1,
        units |-> { << "s" >>,
                   << "s", "e", "c" >>,
                   << "s", "e", "c", "s" >>,
                   << "s", "e", "c", "o", "n", "d" >>,
                   << "s", "e", "c", "o", "n", "d", "s" >> } ],
      [ factor |-> 60,
        units |-> { << "m" >>,
                   << "m", "i", "n" >>,
                   << "m", "i", "n", "s" >>,
                   << "m", "i", "n", "u", "t", "e" >>,
                   << "m", "i", "n", "u", "t", "e", "s" >> } ],
      [ factor |-> 3600,
        units |-> { << "h" >>,
                   << "h", "r" >>,
                   << "h", "r", "s" >>,
                   << "h", "o", "u", "r" >>,
                   << "h", "o", "u", "r", "s" >> } ],
      [ factor |-> 86400,
        units |-> { << "d" >>,
                   << "d", "a", "y" >>,
                   << "d", "a", "y", "s" >> } ],
      [ factor |-> 604800,
        units |-> { << "w" >>,
                   << "w", "e", "e", "k" >>,
                   << "w", "e", "e", "k", "s" >> } ],
      [ factor |-> 2592000,
        units |-> { << "m", "o" >>,
                   << "m", "o", "n", "t", "h" >>,
                   << "m", "o", "n", "t", "h", "s" >> } ],
      [ factor |-> 31536000,
        units |-> { << "y" >>,
                   << "y", "r" >>,
                   << "y", "e", "a", "r" >>,
                   << "y", "e", "a", "r", "s" >> } ] }

Aliases == UNION { f.units : f \in factors }

FactorOf(time_unit) == ( CHOOSE f \in factors : time_unit \in f.units ).factor

Returned(v) == [ raised |-> Nil, value |-> v ]

Raised(exc) == [ raised |-> exc, value |-> 0 ]

(* to_second(time_annotation)                                              *)
to_second(time_annotation) ==
    LET matched == match_time_annotation(time_annotation)
    IN  IF matched = Nil
        THEN Raised("ValueError")
        ELSE LET amount == IF matched[1] # << >> THEN int(matched[1]) ELSE 1
                 time_unit == Lower(matched[2])
             IN  IF time_unit \in Aliases
                 THEN Returned(amount * FactorOf(time_unit))
                 ELSE Raised("ValueError")

(* The loop of slice_period, from the cursor on.                           *)
RECURSIVE Slices(_, _, _)
Slices(cursor, window, cur_date) ==
    LET stop == cursor + window
    IN  IF stop >= cur_date
        THEN << [ op |-> ">", start |-> cursor ] >>
        ELSE << [ op |-> "..", start |-> cursor, stop |-> stop ] >>
             \o Slices(stop, window, cur_date)

reversed(chunks) == [ i \in DOMAIN chunks |-> chunks[Len(chunks) + 1 - i] ]

(* slice_period(period, window, reverse) called at the instant cur_date    *)
slice_period(period, window, reverse, cur_date) ==
    LET p == to_second(period)
        w == to_second(window)
    IN  IF p.raised # Nil THEN p
        ELSE IF w.raised # Nil THEN w
        ELSE LET chunks == Slices(cur_date - p.value, w.value, cur_date)
             IN  Returned(IF reverse THEN reversed(chunks) ELSE chunks)

(* str.replace(old, ''): every occurrence of old, from the left, is taken  *)
(* out; an empty old leaves the text as it is.                             *)
RECURSIVE Remove(_, _)
Remove(text, old) ==
    IF old = << >> \/ text = << >>
    THEN text
    ELSE IF StartsWith(text, old)
    THEN Remove(SubSeq(text, Len(old) + 1, Len(text)), old)
    ELSE << Head(text) >> \o Remove(Tail(text), old)

(* _prefix of HashType, Package and Repository                             *)
Prefixes == { << >>, << "p", "k", "g" >>, << "r", "e", "p", "o" >> }

(* HashType.genkey(name) of the class whose _prefix is cls_prefix          *)
HashType_genkey(cls_prefix, name) ==
    LET prefix == IF cls_prefix # << >> /\ ~EndsWith(cls_prefix, << ":" >>)
                  THEN cls_prefix \o << ":" >>
                  ELSE cls_prefix
        bare == IF StartsWith(name, prefix) THEN Remove(name, prefix) ELSE name
    IN  prefix \o Lower(bare)

(* Names given to genkey: a bare name, or one that begins with one or two  *)
(* prefixes in some letter case.                                           *)
BareNames == { << "a" >>, << "A", "b" >> }

PrefixTexts ==
    { << "p", "k", "g", ":" >>, << "P", "K", "G", ":" >>,
      << "P", "k", "g", ":" >>,
      << "r", "e", "p", "o", ":" >>, << "R", "E", "P", "O", ":" >> }

KeyNames ==
    BareNames
    \cup { x \o b : x \in PrefixTexts, b \in BareNames }
    \cup { x \o y \o b : x \in PrefixTexts, y \in PrefixTexts, b \in BareNames }

GenkeyCalls ==
    { [ fn |-> "genkey", pc |-> "call", prefix |-> c, name |-> n,
        out |-> Returned(<< >>) ] : c \in Prefixes, n \in KeyNames }

(***************************************************************************)
(* HashType.store_val / use_val and their overrides (app/models.py)        *)
(*                                                                         *)
(* A text is a tuple of characters, a set a set, a list a sequence, a dict *)
(* a function; a naive datetime is the number of seconds it reads; a JSON  *)
(* text is the list or dict it denotes.                                    *)
(***************************************************************************)
Entities == { "HashType", "Package", "Repository" }

num_fields(cls) ==
    CASE cls = "HashType" -> {}
      [] cls = "Package" -> { "num_pyfiles", "num_reqfiles", "num_repos" }
      [] cls = "Repository" -> { "retrieved" }

text_fields(cls) ==
    CASE cls = "HashType" -> { "name" }
      [] cls = "Package" -> { "name" }
      [] cls = "Repository" -> { "name", "id", "url", "contents_url" }

json_fields(cls) ==
    CASE cls = "HashType" -> {}
      [] cls = "Package" -> { "pyfiles", "reqfiles", "repos" }
      [] cls = "Repository" -> { "files", "packages" }

date_fields(cls) == { "updated" }

all_fields(cls) ==
    num_fields(cls) \cup text_fields(cls) \cup json_fields(cls)
    \cup date_fields(cls)

(* list(a_set): the elements in some order                                 *)
list(S) ==
    CHOOSE q \in [ 1..Cardinality(S) -> S ] : \A x \in S : \E i \in DOMAIN q : q[i] = x

(* set(a_list)                                                             *)
set(q) == { q[i] : i \in DOMAIN q }

(* json.dumps / json.loads of a list or dict of texts                      *)
dumps(value) == [ json |-> value ]

loads(text) == text.json

(* str(a_float) and float(text) for a whole number of seconds              *)
float_str(n) == str(n) \o << ".", "0" >>

float(text) == int(SubSeq(text, 1, Len(text) - 2))

(* datetime.timestamp() of a naive datetime: the reading is taken as local *)
(* time, utcoffset seconds ahead of UTC.                                   *)
timestamp(value, utcoffset) == value - utcoffset

(* datetime.utcfromtimestamp(seconds): the naive reading in UTC            *)
utcfromtimestamp(seconds) == seconds

(* HashType.store_val(value, field) for a value that is set                *)
HashType_store_val(cls, value, field, utcoffset) ==
    IF field \in text_fields(cls)
    THEN value
    ELSE IF field \in num_fields(cls)
    THEN str(value)
    ELSE IF field \in json_fields(cls)
    THEN dumps(IF field = "repos" THEN list(value) ELSE value)
    ELSE float_str(timestamp(value, utcoffset))

(* HashType.use_val(value, field) for a value that is set                  *)
HashType_use_val(cls, value, field) ==
    IF field \in text_fields(cls)
    THEN value
    ELSE IF field \in num_fields(cls)
    THEN int(value)
    ELSE IF field \in json_fields(cls)
    THEN loads(value)
    ELSE utcfromtimestamp(float(value))

(* RepoFiles(files) and RepoFiles.as_dict()                                *)
RepoFiles(files) == [ _files |-> files ]

as_dict(repofiles) == repofiles._files

(* Package.store_val, Repository.store_val                                 *)
store_val(cls, value, field, utcoffset) ==
    IF cls = "Package" /\ field = "pyfiles"
    THEN HashType_store_val(cls, [ k \in DOMAIN value |-> list(value[k]) ],
                            field, utcoffset)
    ELSE IF cls = "Repository" /\ field = "files"
    THEN HashType_store_val(cls, as_dict(value), field, utcoffset)
    ELSE IF cls = "Repository" /\ field = "retrieved"
    THEN HashType_store_val(cls, IF value = TRUE THEN 1 ELSE 0, field, utcoffset)
    ELSE HashType_store_val(cls, value, field, utcoffset)

(* Package.use_val, Repository.use_val                                     *)
use_val(cls, value, field) ==
    LET v == HashType_use_val(cls, value, field)
    IN  IF cls = "Package" /\ field = "repos"
        THEN set(v)
        ELSE IF cls = "Package" /\ field = "pyfiles"
        THEN [ k \in DOMAIN v |-> set(v[k]) ]
        ELSE IF cls = "Repository" /\ field = "files"
        THEN RepoFiles(v)
        ELSE IF cls = "Repository" /\ field = "retrieved"
        THEN v # 0
        ELSE v

(* datetime.utcnow(), in seconds                                           *)
Instants == { 5000, 5007 }

(* Values of each field's class.                                           *)
TextValues == { << >>, << "a" >>, << "A", "b" >> }

PathTexts == { << "m" >>, << "n" >> }

Dicts(keys, values) == UNION { [ D -> values ] : D \in SUBSET keys }

(* The seconds the host's local time is ahead of UTC.                      *)
UtcOffsets == { 0, 3600 }

FieldValues(cls, field) ==
    IF field \in text_fields(cls) THEN TextValues
    ELSE IF field = "retrieved" THEN BOOLEAN
    ELSE IF field \in num_fields(cls) THEN 0..MaxAmount
    ELSE IF field = "repos" THEN SUBSET RepoNames
    ELSE IF field = "pyfiles" THEN Dicts(RepoNames, ( SUBSET PathTexts ) \ { {} })
    ELSE IF field = "reqfiles" THEN Dicts(RepoNames, TextValues)
    ELSE IF field = "files"
    THEN { RepoFiles([ pyfile |-> py, reqfile |-> rq ]) :
             py \in Dicts(PathTexts, TextValues),
             rq \in Dicts({ << "r" >> }, TextValues) }
    ELSE IF field = "packages" THEN { << >>, << << "p" >> >>, << << "p" >>, << "q" >> >> }
    ELSE Instants

(* One call of store_val followed by use_val on what it returned.          *)
ValCall(cls, field, utcoffset, value) ==
    [ fn |-> "store_val", pc |-> "call", cls |-> cls, field |-> field,
      utcoffset |-> utcoffset, value |-> value, stored |-> Nil,
      out |-> Returned(0) ]

(* Units that are not in the grammar.                                      *)
UnknownUnits == { << "x" >>, << "h", "s" >> }

(* Amounts written by the caller: 0 stands for an omitted amount.          *)
Amounts == 0..MaxAmount

Annotation(n, time_unit) == ( IF n = 0 THEN << >> ELSE str(n) ) \o time_unit

(* One call of to_second or of slice_period: a period of P seconds and a   *)
(* window of W seconds or minutes.                                         *)
ToSecondCalls ==
    { [ fn |-> "to_second", pc |-> "call", amount |-> n, unit |-> u,
        text |-> Annotation(n, u), out |-> Returned(0) ] :
        n \in Amounts, u \in Aliases \cup UnknownUnits }

SlicePeriodCalls ==
    { [ fn |-> "slice_period", pc |-> "call", P |-> c[1], W |-> c[2] * FactorOf(c[3]),
        period |-> Annotation(c[1], << "s" >>),
        window |-> Annotation(c[2], c[3]),
        reverse |-> c[4], cur_date |-> c[5], out |-> Returned(0) ] :
        c \in (1..MaxAmount) \X (1..MaxAmount) \X { << "s" >>, << "m" >> }
              \X BOOLEAN \X Instants }

(* app.retrycon(retries=5, delay=5): the defaults of the decorator.        *)
retries == 5
retry_delay == 5

(* redis.exceptions caught by retrycon, and what one attempt of the        *)
(* wrapped store operation can do.                                         *)
Transient == { "ConnectionError", "BusyLoadingError" }
AttemptOutcomes == { "ok" } \cup Transient \cup { "ResponseError" }

(* retrycon's wrapped(): attempt k of func with 'count' retries so far;    *)
(* 'slept' adds up the time.sleep(delay) calls.                            *)
RECURSIVE wrapped(_, _, _, _)
wrapped(outcomes, k, count, slept) ==
    IF outcomes[k] = "ok"
    THEN [ raised |-> Nil, attempts |-> k, slept |-> slept ]
    ELSE IF outcomes[k] \in Transient
    THEN IF count >= retries
         THEN [ raised |-> outcomes[k], attempts |-> k, slept |-> slept ]
         ELSE wrapped(outcomes, k + 1, count + 1, slept + retry_delay)
    ELSE [ raised |-> outcomes[k], attempts |-> k, slept |-> slept ]

(* One call of a wrapped store operation: what each attempt would do.      *)
RetryconCalls ==
    { [ fn |-> "retrycon", pc |-> "call", outcomes |-> o,
        out |-> [ raised |-> Nil, attempts |-> 0, slept |-> 0 ] ] :
        o \in [ 1..MaxAttempts -> AttemptOutcomes ] }

(* What a wrapped request for a file's content ends with: data, None after *)
(* MAX_RETRIES_PER_REQUEST failed attempts, or an exception the wrapper     *)
(* raises again.                                                           *)
FetchOutcomes ==
    { "ok", Nil, "BadRequestError", "BlobTooLargeError", "GithubServerError" }

(* ContentRetriever.__retrieve(url, output='one'): NotFoundError and       *)
(* BadRequestError give data = [], of which 'one' is None; unpacking the   *)
(* None of an exhausted call raises TypeError.                             *)
retrieve_one(outcome, body) ==
    IF outcome = "ok" THEN [ raised |-> Nil, data |-> body ]
    ELSE IF outcome \in { "NotFoundError", "BadRequestError" }
    THEN [ raised |-> Nil, data |-> Nil ]
    ELSE IF outcome = Nil THEN [ raised |-> "TypeError", data |-> Nil ]
    ELSE [ raised |-> outcome, data |-> Nil ]

(* ContentRetriever.retrieve_content(item): the item's 'content' attribute *)
(* afterwards, NoVer when it was not set.  The contents endpoint answers   *)
(* base64 text, the download_url the raw body.                             *)
retrieve_content(first, fallback) ==
    LET r == retrieve_one(first, "base64")
        d == retrieve_one(fallback, "raw")
    IN  IF r.raised = "BlobTooLargeError"
        THEN IF d.raised = Nil
             THEN [ raised |-> Nil, content |-> d.data ]
             ELSE IF d.raised \in GithubExceptions
             THEN [ raised |-> Nil, content |-> NoVer ]
             ELSE [ raised |-> d.raised, content |-> NoVer ]
        ELSE IF r.raised # Nil
        THEN [ raised |-> r.raised, content |-> NoVer ]
        ELSE IF r.data = Nil
        THEN [ raised |-> "TypeError", content |-> NoVer ]
        ELSE [ raised |-> Nil, content |-> r.data ]

(* GithubContent.decoded_content: '' without a 'content' attribute, the    *)
(* decoded text of a base64 content, else self.content or ''.              *)
decoded_content(content) ==
    IF content = NoVer THEN ""
    ELSE IF content = "base64" THEN "text"
    ELSE IF content = Nil THEN ""
    ELSE content

(* retrieve_files_in_repo, one expected file: retrieve_content(file), then *)
(* repo.add_file(file.path, file.decoded_content).                         *)
RetrieveCalls ==
    { [ fn |-> "retrieve_content", pc |-> "call", path |-> f,
        first |-> a, fallback |-> b,
        out |-> [ raised |-> Nil, files |-> {} ] ] :
        f \in Paths, a \in FetchOutcomes, b \in FetchOutcomes }

EvalInit ==
    /\ PoolIdle
    /\ ReqIdle
    /\ walk = NoWalk
    /\ find = NoFind
    /\ since = {}
    /\ page = NoPage
    /\ snap = NoSnap
    /\ \/ eval \in ToSecondCalls \cup SlicePeriodCalls \cup GenkeyCalls
       \/ eval \in RetryconCalls
       \/ eval \in RetrieveCalls
       \/ \E cls \in Entities, utcoffset \in UtcOffsets :
            \E field \in all_fields(cls) :
              \E value \in FieldValues(cls, field) :
                eval = ValCall(cls, field, utcoffset, value)

EvalFrame == UNCHANGED << poolvars, reqvars, walk, find, since, page, snap >>

ToSecond ==
    /\ eval.fn = "to_second"
    /\ eval.pc = "call"
    /\ eval' = [ eval EXCEPT !.pc = "done", !.out = to_second(eval.text) ]
    /\ EvalFrame

SlicePeriod ==
    /\ eval.fn = "slice_period"
    /\ eval.pc = "call"
    /\ eval' = [ eval EXCEPT !.pc = "done",
                             !.out = slice_period(eval.period, eval.window,
                                                  eval.reverse, eval.cur_date) ]
    /\ EvalFrame

Genkey ==
    /\ eval.fn = "genkey"
    /\ eval.pc = "call"
    /\ eval' = [ eval EXCEPT !.pc = "done",
                             !.out = Returned(HashType_genkey(eval.prefix,
                                                              eval.name)) ]
    /\ EvalFrame

(* cls.store_val(value, field): what mset hands to the store               *)
StoreVal ==
    /\ eval.fn = "store_val"
    /\ eval.pc = "call"
    /\ eval' = [ eval EXCEPT !.pc = "stored",
                             !.stored = store_val(eval.cls, eval.value,
                                                  eval.field, eval.utcoffset) ]
    /\ EvalFrame

(* cls.use_val(stored, field): what get makes of the stored text           *)
UseVal ==
    /\ eval.fn = "store_val"
    /\ eval.pc = "stored"
    /\ eval' = [ eval EXCEPT !.pc = "done",
                             !.out = Returned(use_val(eval.cls, eval.stored,
                                                      eval.field)) ]
    /\ EvalFrame

(* A call of a function decorated with retrycon()                          *)
Retrycon ==
    /\ eval.fn = "retrycon"
    /\ eval.pc = "call"
    /\ eval' = [ eval EXCEPT !.pc = "done",
                             !.out = wrapped(eval.outcomes, 1, 0, 0) ]
    /\ EvalFrame

RetrieveContent ==
    /\ eval.fn = "retrieve_content"
    /\ eval.pc = "call"
    /\ LET r == retrieve_content(eval.first, eval.fallback)
       IN  eval' = [ eval EXCEPT
                       !.pc = "done",
                       !.out = IF r.raised # Nil
                               THEN [ raised |-> r.raised, files |-> {} ]
                               ELSE [ raised |-> Nil,
                                      files |-> { << eval.path,
                                                     decoded_content(r.content) >> } ] ]
    /\ EvalFrame

EvalNext ==
    \/ Retrycon
    \/ RetrieveContent
    \/ ToSecond
    \/ SlicePeriod
    \/ Genkey
    \/ StoreVal
    \/ UseVal

EvalSpec == EvalInit /\ [][EvalNext]_vars

(***************************************************************************)
(* One worker searching slice after slice with one GithubSearch object     *)
(* (modules/github/client.py, Pagination)                                  *)
(***************************************************************************)
(* The pages of a search's result and the failed requests that are         *)
(* followed.                                                               *)
MaxPages == 2
MaxFailures == 2

(* The searches the worker makes, one per slice, and the items of a page.  *)
Searches == 1..2
PerPages == { 1, 2 }

(* The i-th item of page n of search s.                                    *)
Item(s, n, i) == 100 * s + 10 * n + i

(* What the wrapped GithubClient.request ends with: parsed data, None      *)
(* after MAX_RETRIES_PER_REQUEST failed attempts, or an exception the      *)
(* wrapper raises again.                                                   *)
PageOutcomes == { "ok", Nil, "BadRequestError", "GithubServerError" }

(* except (NotFoundError, BadRequestError): pass                          *)
Swallowed == { "NotFoundError", "BadRequestError" }

(* The worker builds its GithubSearch once; items and _links are None      *)
(* (parsed = FALSE) until a response is parsed.                            *)
PageInit ==
    /\ PoolIdle
    /\ ReqIdle
    /\ walk = NoWalk
    /\ eval = NoEval
    /\ find = NoFind
    /\ since = {}
    /\ snap = NoSnap
    /\ \E chains \in [ Searches -> 1..MaxPages ], per_page \in PerPages :
         page = [ pc |-> "search",
                  chains |-> chains,
                  per_page |-> per_page,
                  search |-> 1,
                  parsed |-> FALSE,
                  items |-> << >>,
                  next |-> 0,
                  yielded |-> << >>,
                  failures |-> 0,
                  exc |-> Nil ]

PageFrame == UNCHANGED << poolvars, reqvars, walk, eval, find, since, snap >>

(* Pagination.has_next: 'next' in self._links                              *)
has_next(p) == p.next # 0

(* Pagination.has_data: self.items is not None                             *)
has_data(p) == p.parsed

(* Pagination.request for page n of the current search: _parse_links and   *)
(* _parse_data run in the else branch only; unpacking None raises          *)
(* TypeError.  after is where the caller goes on.                          *)
PageRequest(n, after) ==
    \E out \in PageOutcomes :
        /\ out # "ok" => page.failures < MaxFailures
        /\ page' =
             IF out = "ok"
             THEN [ page EXCEPT
                      !.pc = after,
                      !.parsed = TRUE,
                      !.items = [ i \in 1..page.per_page |->
                                    Item(page.search, n, i) ],
                      !.next = IF n < page.chains[page.search]
                               THEN n + 1 ELSE 0 ]
             ELSE IF out \in Swallowed
             THEN [ page EXCEPT !.pc = after, !.failures = @ + 1 ]
             ELSE [ page EXCEPT !.pc = "raised", !.failures = @ + 1,
                                !.exc = IF out = Nil THEN "TypeError"
                                        ELSE out ]

(* search_repos_in_slice: self._search.search(created=time_slice)          *)
PageSearch ==
    /\ page.pc = "search"
    /\ PageRequest(1, "traverse")
    /\ PageFrame

(* traverse: if self.has_data(): while True: ...                           *)
PageTraverse ==
    /\ page.pc = "traverse"
    /\ page' = [ page EXCEPT !.pc = IF has_data(page) THEN "yield" ELSE "end" ]
    /\ PageFrame

(* traverse: for i in self.items: yield i; then has_next() decides         *)
PageYield ==
    /\ page.pc = "yield"
    /\ page' = [ page EXCEPT
                   !.yielded = @ \o page.items,
                   !.pc = IF has_next(page) THEN "next" ELSE "end" ]
    /\ PageFrame

(* next: assert self.has_next(); self.request(url=self._links['next'])     *)
PageNext ==
    /\ page.pc = "next"
    /\ has_next(page)
    /\ PageRequest(page.next, "yield")
    /\ PageFrame

(* search_repos: the worker takes the next slice off the queue             *)
PageSlice ==
    /\ page.pc = "end"
    /\ page.search + 1 \in Searches
    /\ page' = [ page EXCEPT !.pc = "search", !.search = @ + 1 ]
    /\ PageFrame

PageStep ==
    \/ PageSearch
    \/ PageTraverse
    \/ PageYield
    \/ PageNext
    \/ PageSlice

PageSpec == PageInit /\ [][PageStep]_vars

(***************************************************************************)
(* The main process polling Snapshot (app/models.py)                       *)
(***************************************************************************)
(* REDIS_SAVE_INTERVAL, in seconds short enough to elapse.                 *)
Intervals == { 2, 3 }

(* What _do_save ends with: db.save() done, or the exception retrycon      *)
(* raises when its retries are used up; and the seconds it takes.          *)
SaveOutcomes == { "ok", "ConnectionError" }
SaveTimes == { 0, 1 }

(* No snapshot yet.                                                        *)
NoShot == [ at |-> 0, forced |-> TRUE ]

(* Snapshot(interval): _lastsave = time.time().  'last' and 'before' are   *)
(* the last two snapshots that succeeded (the instant save was called and  *)
(* its force argument), 'fresh' the instant the last one was done.         *)
SnapInit ==
    /\ PoolIdle
    /\ ReqIdle
    /\ walk = NoWalk
    /\ eval = NoEval
    /\ find = NoFind
    /\ since = {}
    /\ page = NoPage
    /\ \E interval \in Intervals :
         snap = [ pc |-> "idle",
                  interval |-> interval,
                  lastsave |-> time,
                  force |-> FALSE,
                  answer |-> FALSE,
                  outcome |-> "none",
                  last |-> NoShot,
                  before |-> NoShot,
                  fresh |-> time ]

SnapFrame ==
    UNCHANGED << poolvars, glimit, call, sent, walk, eval, find, since, page >>

(* Snapshot.elapse                                                         *)
elapse(s, t) == t - s.lastsave

(* saveable() that always answers yes.                                     *)
saveable_always(s, t) == TRUE

(* Snapshot.saveable                                                       *)
saveable(s, t) == elapse(s, t) >= s.interval

(* time.sleep(3) in join_snapshot, or whatever the caller does meanwhile   *)
SnapTick ==
    /\ snap.pc = "idle"
    /\ time < MaxNow
    /\ \E d \in { 1, 2 } : time' = time + d
    /\ UNCHANGED snap
    /\ SnapFrame

(* The caller invokes saveable(), save() or save(force=True).              *)
SnapCall ==
    /\ snap.pc = "idle"
    /\ \E op \in { "saveable", "save" }, force \in BOOLEAN :
         snap' = [ snap EXCEPT !.pc = op, !.force = force ]
    /\ UNCHANGED time
    /\ SnapFrame

(* saveable(): the answer goes to the caller                               *)
SnapSaveable ==
    /\ snap.pc = "saveable"
    /\ snap' = [ snap EXCEPT !.pc = "idle", !.answer = saveable(snap, time) ]
    /\ UNCHANGED time
    /\ SnapFrame

(* save(force): if force or self.saveable(): self._do_save();              *)
(* self._lastsave = time.time()                                            *)
SnapSave ==
    /\ snap.pc = "save"
    /\ IF snap.force \/ saveable(snap, time)
       THEN \E out \in SaveOutcomes, d \in SaveTimes :
              /\ d > 0 => time < MaxNow
              /\ time' = time + d
              /\ snap' =
                   IF out = "ok"
                   THEN [ snap EXCEPT
                            !.pc = "idle",
                            !.lastsave = time',
                            !.outcome = "saved",
                            !.before = snap.last,
                            !.last = [ at |-> time, forced |-> snap.force ],
                            !.fresh = time' ]
                   ELSE [ snap EXCEPT !.pc = "idle", !.outcome = "raised" ]
       ELSE /\ snap' = [ snap EXCEPT !.pc = "idle", !.outcome = "skipped" ]
            /\ UNCHANGED time
    /\ SnapFrame

SnapNext ==
    \/ SnapTick
    \/ SnapCall
    \/ SnapSaveable
    \/ SnapSave

SnapSpec == SnapInit /\ [][SnapNext]_vars

(***************************************************************************)
(* Claims                                                                  *)
(***************************************************************************)
InStoreWrite(w) == wpc[w] \in { "s_write", "p_write", "r_write" }
MainInStoreWrite == mpc \in { "snap_save", "end_save" }
AtLock(w) == wpc[w] \in { "s_lock", "p_lock", "r_lock" }

(* C1: at most one of the workers and the snapshot scheduler is inside a   *)
(* store write (the hmset of mset, the save of _do_save) at any instant.   *)
C1_SingleWriter ==
    Cardinality({ w \in Workers : InStoreWrite(w) })
        + (IF MainInStoreWrite THEN 1 ELSE 0) <= 1

(* A worker is inside hmset while another worker and the scheduler wait.   *)
C1_Contention ==
    /\ mpc = "snap_lock"
    /\ \E w1, w2 \in Workers : w1 # w2 /\ InStoreWrite(w1) /\ AtLock(w2)

Failed == exc_queue # << >> \/ held # Nil

InQueueR(n) == \E i \in DOMAIN repos : repos[i] = n

(* C2: in mode 'both', while the run flag stays set and nothing fails,     *)
(* every name put on Queue-R is eventually dequeued and its stored record  *)
(* eventually has retrieved = true.                                        *)
C2_QueuedIsRetrieved ==
    \A n \in FullNames :
        (mode = "both" /\ run_event /\ InQueueR(n))
            ~> ( (~InQueueR(n) /\ store_repo[Lower(n)].retrieved = "1")
                 \/ ~run_event \/ Failed )

(* C3: once stop() has cleared the run flag and posted the sentinel on     *)
(* each queue, every worker (all of them started, some blocked in get())   *)
(* eventually terminates, so join_workers() returns.                       *)
C3_StopJoinsAll ==
    ( mpc = "join" /\ \A w \in Workers : wpc[w] # "wait" ) ~> AllJoined

RECURSIVE SumPyfiles(_, _)
SumPyfiles(pyfiles, rs) ==
    IF rs = {} THEN 0
    ELSE LET r == CHOOSE q \in rs : TRUE
         IN  Cardinality(pyfiles[r]) + SumPyfiles(pyfiles, rs \ { r })

HasReq(h) == { r \in RepoNames : h.reqfiles[r] # NoVer }

(* C4: a repository, a (repository, path) pair or a reqfiles entry that is *)
(* in a stored Package stays in that stored Package in every later state.  *)
C4_AdditiveOnly ==
    [][ \A k \in PkgNames :
          /\ store_pkg[k].repos \subseteq store_pkg'[k].repos
          /\ \A r \in RepoNames :
               store_pkg[k].pyfiles[r] \subseteq store_pkg'[k].pyfiles[r]
          /\ HasReq(store_pkg[k]) \subseteq HasReq(store_pkg'[k]) ]_vars

(* The step in which worker w takes the next result item of its slice.     *)
Observes(w) ==
    /\ wpc[w] = "s_iter"
    /\ wloc[w].items # << >>
    /\ wloc'[w].items = Tail(wloc[w].items)

(* C5: when the search phase observes a result whose lower-cased name has  *)
(* a stored record, it goes on to the next item: no stub is written, the   *)
(* store and its timestamps are unchanged and Queue-R gets nothing.        *)
C5_ExistingIsSkipped ==
    [][ \A w \in Workers :
          ( Observes(w) /\ store_repo[Lower(Head(wloc[w].items))].updated # 0 )
          => /\ wpc'[w] = "s_iter"
             /\ wloc'[w].cur = wloc[w].cur
             /\ store_repo' = store_repo
             /\ repos' = repos ]_vars

(* Worker w has passed over 'A/x', whose record 'a/x' was already stored.  *)
C5_Skipped ==
    \E w \in Workers :
        /\ wpc[w] = "s_iter"
        /\ wloc[w].items = << <<"b", "y">> >>
        /\ wloc[w].cur = NoName
        /\ store_repo[<<"a", "x">>].updated = 1

(* The step in which worker w loads the repository it has dequeued.        *)
Loads(w) == wpc[w] = "r_load" /\ wpc'[w] # "r_load"

StoredDone(n) ==
    \/ store_repo[Lower(n)].retrieved = "1"
    \/ store_repo[Lower(n)].contents_url \in { Nil, "" }

(* C6: when the retrieve phase dequeues a repository whose record has      *)
(* retrieved = true or an empty contents_url, the walker is not started    *)
(* and nothing is committed.                                               *)
C6_DoneIsNotWalked ==
    [][ \A w \in Workers :
          ( Loads(w) /\ StoredDone(wloc[w].cur) )
          => /\ wpc'[w] = "retrieve"
             /\ walked' = walked
             /\ store_repo' = store_repo
             /\ store_pkg' = store_pkg ]_vars

(* Worker w has dequeued b/y, loaded it with retrieved = true and gone     *)
(* back to the loop without a walk.                                        *)
C6_SkippedRetrieved ==
    \E w \in Workers :
        /\ wpc[w] = "retrieve"
        /\ wloc[w].repo.name = <<"b", "y">>
        /\ wloc[w].repo.retrieved
        /\ walked[<<"b", "y">>] = 0

(* C8: every stored Package has num_repos = |repos|, num_pyfiles = the sum *)
(* of |pyfiles[r]| and num_reqfiles = |reqfiles|.                          *)
C8_StoredCountersAgree ==
    \A k \in PkgNames :
        LET h == store_pkg[k]
        IN  /\ h.num_repos = Cardinality(h.repos)
            /\ h.num_pyfiles = SumPyfiles(h.pyfiles, RepoNames)
            /\ h.num_reqfiles = Cardinality(HasReq(h))

(* C7: on one Package object, new or loaded, after any sequence of         *)
(* add_repo / add_pyfile / add_pkgver calls the counters equal the         *)
(* cardinalities of the collections.                                       *)
C7_ObjectCountersAgree ==
    LET o == pobj[1]
    IN  o.changes \ { "name" } # {}
        => /\ o.num_repos = Cardinality(o.repos)
           /\ o.num_pyfiles = SumPyfiles(o.pyfiles, RepoNames)
           /\ o.num_reqfiles = Cardinality(HasReq(o))

(* C9: a call that has handled MAX_RETRIES failed attempts of a retried    *)
(* class has made exactly MAX_RETRIES attempts and ends by raising         *)
(* MaxRetriesExceeded; it does not return to the caller.                   *)
C9_ExhaustedCallFails ==
    ( Ended /\ call.count = MAX_RETRIES_PER_REQUEST )
    => /\ call.attempts = MAX_RETRIES_PER_REQUEST
       /\ call.pc = "raised"
       /\ call.exc = "MaxRetriesExceeded"

(* C10: in the step that handles a RateLimitError the quota endpoint is    *)
(* asked again, stale or not, and when fewer than MAX_RETRIES attempts     *)
(* were made the call goes on to its next attempt.                         *)
C10_RefreshThenRetry ==
    [][ ( call.pc = "except" /\ call.exc = "RateLimitError" )
        => /\ call'.asks = call.asks + 1
           /\ call.attempts < MAX_RETRIES_PER_REQUEST
              => ( call'.pc = "loop" /\ call'.count < MAX_RETRIES_PER_REQUEST ) ]_vars

(* The classes the disposition table marks as not retried.                 *)
NotRetried ==
    { "NotFoundError", "BadRequestError", "LoginError", "UserAgentError",
      "RepoBlockedError", "LegalReasonError", "BlobTooLargeError" }

(* C11: an attempt that raises a class marked as not retried ends the call *)
(* in that step: the error is raised to the caller, with no sleep, no      *)
(* session reset and no further attempt.                                   *)
C11_NotRetriedEndsCall ==
    [][ ( call.pc = "except" /\ call.exc \in NotRetried )
        => /\ call'.pc = "raised"
           /\ call'.exc = call.exc
           /\ call'.attempts = call.attempts
           /\ call'.resets = call.resets
           /\ time' = time ]_vars

(* The step in which a request is sent and succeeds.                       *)
Succeeds == call.pc = "request" /\ call'.pc = "returned"

(* C12: when two consecutive requests both succeed, the second is sent at  *)
(* least the governor's pacing interval (_delay, as set by the last quota  *)
(* refresh) after the first.                                               *)
C12_PacedRequests ==
    [][ ( Succeeds /\ sent # 0 ) => time - sent >= glimit.delay ]_vars

(* The exception classes a worker puts on the exception queue.             *)
WorkerExceptions == { "RequestError", "StoreError" }

(* wait_until_finish -> join_snapshot is about to take a worker's          *)
(* exception e off the exception queue while the pool is running and every *)
(* worker has started.                                                     *)
Surfacing(e) ==
    /\ mpc = "check"
    /\ \A w \in Workers : wpc[w] # "wait"
    /\ run_event
    /\ exc_queue # << >>
    /\ Head(exc_queue) = e

(* C13: an exception a worker raised while the pool is running is          *)
(* eventually raised by wait_until_finish() to the caller, whatever the    *)
(* other workers are doing.                                                *)
C13_WorkerErrorSurfaces ==
    \A e \in WorkerExceptions :
        Surfacing(e) ~> ( mpc = "raised" /\ held = e )

(* C14: whenever an exception taken off the workers' exception queue is    *)
(* raised to the caller (every raise except that of a failed snapshot      *)
(* inside join_snapshot), the run flag has been cleared and every worker   *)
(* has terminated and been joined.                                         *)
C14_RaiseAfterJoin ==
    [][ ( mpc # "raised" /\ mpc' = "raised" /\ mpc # "snap_save" )
        => ( ~run_event' /\ \A w \in Workers : wpc'[w] = "done" ) ]_vars

(* A worker's request error has been raised to the caller.                 *)
C14_Reraised == mpc = "raised" /\ held = "RequestError"

(* C15: every end() of a running pool, once join_workers has joined the    *)
(* workers, goes on to request the forced snapshot, also when the shutdown *)
(* was triggered by worker exceptions.                                     *)
C15_EndSnapshots ==
    [][ ( mpc = "jcheck" /\ mpc' # "jcheck" ) => mpc' = "end_lock" ]_vars

(* A path segment: between the start of the path or a '/', and the end of  *)
(* the path or a '/'.                                                      *)
IsSegment(path, i, j) ==
    /\ i = 1 \/ path[i - 1] = "/"
    /\ j = Len(path) \/ path[j + 1] = "/"
    /\ \A k \in i..j : path[k] # "/"

(* The directory names the exclusion covers: *venv, site-packages,         *)
(* __pycache__, static, a dot-directory, python or pip with an optional    *)
(* version suffix.                                                         *)
ExcludedName(x) ==
    \/ EndsWith(x, << "v", "e", "n", "v" >>)
    \/ x \in ExcludedLiterals
    \/ Len(x) >= 2 /\ x[1] = "."
    \/ \E stem \in PyStems :
         /\ StartsWith(x, stem)
         /\ LET r == SubSeq(x, Len(stem) + 1, Len(x))
            IN  r = << >> \/ VersionSuffix(r)

HasExcludedSegment(path) ==
    \E i \in 1..Len(path) :
      \E j \in i..Len(path) :
        IsSegment(path, i, j) /\ ExcludedName(SubSeq(path, i, j))

Under(file, dir) == StartsWith(file, dir \o << "/" >>)

(* C16: a directory whose path has a segment covered by the exclusion is   *)
(* never pushed on the deque, never listed, and no file under it is        *)
(* yielded.                                                                *)
C16_ExcludedNeverWalked ==
    walk.pc # "idle" =>
      \A p \in walk.dirs :
        HasExcludedSegment(p) =>
          /\ \A k \in DOMAIN walk.folders : walk.folders[k] # quote(p)
          /\ quote(p) \notin walk.traversed
          /\ \A f \in walk.yielded : ~Under(f, p)

(* The slices of a finished slice_period call, oldest first.               *)
Chronological ==
    IF eval.reverse THEN reversed(eval.out.value) ELSE eval.out.value

(* The slices, oldest first, start at cur_date - P; each closed slice is W *)
(* long and ends where the next one starts; the last one, and only it, is  *)
(* open-ended.                                                             *)
Partitions(chunks) ==
    /\ chunks # << >>
    /\ chunks[1].start = eval.cur_date - eval.P
    /\ chunks[Len(chunks)].op = ">"
    /\ \A i \in 1..(Len(chunks) - 1) :
         /\ chunks[i].op = ".."
         /\ chunks[i].stop = chunks[i].start + eval.W
         /\ chunks[i].stop = chunks[i + 1].start

(* C17: for every period P and window W of at least one second,           *)
(* slice_period returns slices that partition [now - P, now], and          *)
(* reverse=True returns the same slices in the opposite order.             *)
C17_SlicesPartition ==
    ( eval.fn = "slice_period" /\ eval.pc = "done" ) =>
        /\ eval.out.raised = Nil
        /\ Partitions(Chronological)
        /\ slice_period(eval.period, eval.window, TRUE, eval.cur_date).value
             = reversed(slice_period(eval.period, eval.window, FALSE,
                                     eval.cur_date).value)

(* C18: to_second of '<n><unit>' is n times the unit's seconds for every   *)
(* positive n and every alias, the unit's seconds when n is omitted, and   *)
(* ValueError for a unit that is not an alias.                             *)
C18_ToSecond ==
    ( eval.fn = "to_second" /\ eval.pc = "done" ) =>
        IF eval.unit \in Aliases
        THEN eval.out = Returned(( IF eval.amount = 0 THEN 1 ELSE eval.amount )
                                 * FactorOf(eval.unit))
        ELSE eval.out = Raised("ValueError")

(* C19: for every entity class and every name, also one that begins with   *)
(* the class's prefix in any letter case, the key of the name, the key of  *)
(* the name in capitals and the key of the key are the same.               *)
C19_KeyIsCanonical ==
    ( eval.fn = "genkey" /\ eval.pc = "done" ) =>
        /\ eval.out.value = HashType_genkey(eval.prefix, Upper(eval.name))
        /\ eval.out.value = HashType_genkey(eval.prefix, eval.out.value)

(* C20: for every entity, every field and every value of the field's       *)
(* class, use_val of store_val of the value is the value.                  *)
C20_StoreUseRoundTrip ==
    ( eval.fn = "store_val" /\ eval.pc = "done" ) =>
        /\ eval.out.raised = Nil
        /\ eval.out.value = eval.value

(* The names parsed from the source files and from the requirement file of *)
(* the repository find_packages is called on.                              *)
FindSources == { f \in find.repo.files : is_pyfile(f) }
FindRequired == UNION { Requires(f) : f \in { g \in find.repo.files : is_reqfile(g) } }
FindLocals == { pkgname_from_path(f) : f \in FindSources }
FindAttributed ==
    { n \in UNION { Imports(f) : f \in FindSources } \cup { e[1] : e \in FindRequired } :
        n # NoName /\ n \notin FindLocals }

C22_ExternalAttributed ==
    find.pc = "done" =>
        LET R == find.repo.name
        IN  /\ \A f \in FindSources :
                  \A n \in Imports(f) \cap FindAttributed :
                      /\ R \in store_pkg[n].repos
                      /\ f \in store_pkg[n].pyfiles[R]
            /\ \A e \in FindRequired :
                  e[1] \in FindAttributed =>
                      /\ R \in store_pkg[e[1]].repos
                      /\ store_pkg[e[1]].reqfiles[R] = e[2]
            /\ find.repo.packages = FindAttributed

(* find_packages has returned after attributing two names, one from a      *)
(* source file only and one with an empty version constraint.              *)
C22_TwoNames ==
    /\ find.pc = "done"
    /\ find.repo.files = { "app.py", "docs/requirements.txt" }
    /\ find.repo.packages = { <<"p">>, <<"q">>, <<"m", "a", "i", "n">> }
    /\ store_pkg[<<"q">>].reqfiles[find.repo.name] = ""
    /\ "app.py" \in store_pkg[<<"p">>].pyfiles[find.repo.name]

AllTransient(n) == \A k \in 1..n : eval.outcomes[k] \in Transient

(* C23: a store operation wrapped by retrycon() whose every attempt fails  *)
(* with ConnectionError or BusyLoadingError is attempted at most 5 times   *)
(* in total, with a 5-second sleep between attempts, and then the failure  *)
(* propagates; any other exception propagates on its first occurrence.     *)
C23_FiveAttempts ==
    ( eval.fn = "retrycon" /\ eval.pc = "done" ) =>
        /\ AllTransient(MaxAttempts) =>
              /\ eval.out.attempts <= 5
              /\ eval.out.slept = 5 * ( eval.out.attempts - 1 )
              /\ eval.out.raised \in Transient
        /\ \A k \in 1..5 :
              ( AllTransient(k - 1) /\ eval.outcomes[k] = "ResponseError" ) =>
                  /\ eval.out.attempts = k
                  /\ eval.out.raised = "ResponseError"

(* The fields a mutator of Package may pass to set_change.                 *)
Flags(op) ==
    CASE op = "add_repo" -> { "repos", "num_repos" }
      [] op = "add_pyfile" -> { "repos", "num_repos", "pyfiles", "num_pyfiles" }
      [] op = "add_pkgver" -> { "repos", "num_repos", "reqfiles", "num_reqfiles" }

(* C24: a commit_changes() that follows a successful commit of the same    *)
(* object hands to the store only fields that a mutator called since that  *)
(* commit could have changed, hence nothing when no mutator was called.    *)
C24_CommitWritesMutated ==
    [][ ( pobj[1].updated # 0 /\ pobj[1].existed /\ clock' # clock )
        => pobj[1].changes \subseteq UNION { Flags(op) : op \in since } ]_vars

(* C25: a worker that ends inside its search or walk loop while the run    *)
(* flag is set, which is what an exception does, assertion failures        *)
(* included, has put its exception on the exception channel.               *)
C25_AssertionSurfaces ==
    [][ \A w \in Workers :
          ( run_event /\ wpc[w] \in { "s_iter", "walk" } /\ wpc'[w] = "done" )
              => Len(exc_queue') = Len(exc_queue) + 1 ]_vars

(* C26: the pre-request step of the request wrapper, the quota refresh of  *)
(* ask and the wait of delay, never ends the call with an exception.       *)
C26_GovernorNeverRaises ==
    [][ call.pc \in { "ask", "delay" } => call'.pc # "raised" ]_vars

(* The files of a tree that Repository.expects_file accepts.               *)
Expected(tree) == { tree[i] : i \in { j \in DOMAIN tree : expects_file(tree[j]) } }

Retrieving(w) == genkey(wloc[w].repo.name)

(* C27: when the loop of retrieve_files_in_repo ends, the files added are  *)
(* exactly the yielded files classified as source or requirement, and      *)
(* find_packages runs iff one was added; when the final commit succeeds    *)
(* the stored record has retrieved = true and these files.                 *)
C27_RetrieveCompletes ==
    [][ \A w \in Workers :
          /\ ( wpc[w] = "walk" /\ wpc'[w] \in { "find", "r_lock" } ) =>
                /\ wloc[w].repo.files = Expected(RepoTree(wloc[w].repo.contents_url))
                /\ ( wpc'[w] = "find" ) = ( wloc[w].repo.files # {} )
          /\ ( wpc[w] = "r_write" /\ wpc'[w] = "retrieve" ) =>
                /\ use_retrieved(store_repo'[Retrieving(w)].retrieved)
                /\ store_repo'[Retrieving(w)].files
                      = Expected(RepoTree(wloc[w].repo.contents_url)) ]_vars

(* b/y, whose tree holds no expected file, is stored as retrieved.         *)
C27_NoExpectedFile ==
    /\ store_repo[<<"b", "y">>].contents_url = "cu-doc"
    /\ store_repo[<<"b", "y">>].retrieved = "1"
    /\ store_repo[<<"b", "y">>].files = {}
    /\ store_repo[<<"a", "x">>].retrieved = "1"
    /\ store_repo[<<"a", "x">>].files = { "main.py", "requirements.txt" }

(* C28: a repository's stored record changes to retrieved = true only in   *)
(* the commit of a worker whose walk of that repository has yielded the    *)
(* whole tree, and a worker that leaves the walk loop by an exception or   *)
(* by the assertion on the run flag writes nothing.                        *)
C28_RetrievedAfterWalk ==
    [][ /\ \A r \in RepoNames :
              ( ~use_retrieved(store_repo[r].retrieved)
                /\ use_retrieved(store_repo'[r].retrieved) ) =>
                  \E w \in Workers :
                      /\ wpc[w] = "r_write"
                      /\ Retrieving(w) = r
                      /\ wloc[w].tree = << >>
        /\ \A w \in Workers :
              ( wpc[w] = "walk" /\ wpc'[w] = "done" ) =>
                  /\ store_repo' = store_repo
                  /\ ~use_retrieved(store_repo[Retrieving(w)].retrieved)
                       => ~use_retrieved(store_repo'[Retrieving(w)].retrieved) ]_vars

(* A worker was interrupted in the walk of a/x, whose record is unchanged, *)
(* while b/y was walked to the end and stored as retrieved.                *)
C28_Interrupted ==
    \E w \in Workers :
        /\ wpc[w] = "done"
        /\ Retrieving(w) = <<"a", "x">>
        /\ wloc[w].tree # << >>
        /\ wloc[w].repo.files # {}
        /\ store_repo[<<"a", "x">>].retrieved = Nil
        /\ store_repo[<<"a", "x">>].files = {}
        /\ store_repo[<<"b", "y">>].retrieved = "1"

(* C29: no repository's tree is walked more than once during a run, and no *)
(* repository is on Queue-R under two names or twice.                      *)
C29_WalkedOnce ==
    /\ \A r \in RepoNames : walked[r] <= 1
    /\ \A i, j \in DOMAIN repos :
          ( i # j /\ repos[i] # QNone /\ repos[j] # QNone )
              => genkey(repos[i]) # genkey(repos[j])

(* C30: a name that the search phase puts on Queue-R has, at that moment,  *)
(* a stored Repository record with id, url and contents_url.               *)
C30_StubBeforeEnqueue ==
    [][ \A w \in Workers :
          ( wpc[w] = "s_put" /\ wpc'[w] = "s_iter" /\ HasRepos ) =>
              LET n == repos'[Len(repos')]
              IN  /\ exists(store_repo, n)
                  /\ store_repo[genkey(n)].id # Nil
                  /\ store_repo[genkey(n)].url # Nil
                  /\ store_repo[genkey(n)].contents_url # Nil ]_vars

(* The search phase has put a name it found on Queue-R.                    *)
C30_Enqueued ==
    /\ mode = "both"
    /\ \E w \in Workers : wpc[w] = "s_iter" /\ wloc[w].cur = <<"b", "y">>
    /\ InQueueR(<<"b", "y">>)
    /\ store_repo[<<"b", "y">>].updated > 1

(* C31: in every stored Package, each repository that has source paths in  *)
(* the stored pyfiles or an entry in the stored reqfiles is a member of    *)
(* the stored repos.                                                       *)
C31_KeysAreRepos ==
    \A k \in PkgNames :
        \A r \in RepoNames :
            ( store_pkg[k].pyfiles[r] # {} \/ store_pkg[k].reqfiles[r] # NoVer )
                => r \in store_pkg[k].repos

(* C32: the write semaphore is held exactly by the processes that are      *)
(* inside a locked write: whoever left one, by return or by exception, has *)
(* released it.                                                            *)
C32_LockReleased ==
    sem = 1 - ( Cardinality({ w \in Workers : InStoreWrite(w) })
                + ( IF MainInStoreWrite THEN 1 ELSE 0 ) )

(* A worker's write has raised, and afterwards another worker is inside a  *)
(* locked write.                                                           *)
C32_WriteAfterFailure ==
    /\ \E i \in DOMAIN exc_queue : exc_queue[i] = "StoreError"
    /\ \E w1, w2 \in Workers :
          /\ wpc[w1] = "done"
          /\ wloc[w1].repo.name # NoName
          /\ InStoreWrite(w2)

(* The step in which a request is sent and fails.                          *)
Fails == call.pc = "request" /\ call'.pc = "except"

(* C33: the step in which a request succeeds takes exactly 1 from the      *)
(* governor's remaining and sets last_use to the instant of completion; a  *)
(* failed attempt and the handling of its exception leave last_use alone   *)
(* and change remaining only through a quota refresh.                      *)
C33_UseOnSuccessOnly ==
    [][ /\ Succeeds => /\ glimit'.remaining = glimit.remaining - 1
                       /\ glimit'.last_use = time'
        /\ Fails => glimit' = glimit
        /\ call.pc = "except"
              => /\ glimit'.last_use = glimit.last_use
                 /\ glimit'.remaining # glimit.remaining
                       => call'.asks = call.asks + 1 ]_vars

(* A call has succeeded on a later attempt, after an earlier one failed.   *)
C33_SuccessAfterFailure ==
    /\ call.pc = "returned"
    /\ call.result = "ok"
    /\ call.attempts >= 2
    /\ glimit.last_use = time
    /\ time > 2

(* C34: no request, first attempt or retry, is sent while the governor has *)
(* remaining <= 1 and the instant is before reset.                         *)
C34_NoSendOutOfLimit ==
    [][ ( Succeeds \/ Fails )
            => ~ ( glimit.remaining <= MIN_REMAINING_OF_LIMIT
                   /\ time < glimit.reset ) ]_vars

(* The seconds the except clause of a retried class passes to client.delay. *)
BaseDelay(exc) ==
    IF exc = "RateLimitError" THEN SHORT_BREAK_DELAY
    ELSE IF exc = "NotFoundError" THEN MEDIUM_BREAK_DELAY
    ELSE LONG_BREAK_DELAY

(* C35: the sleep taken after the k-th failed attempt of a call is the     *)
(* error class's base delay multiplied by k.                               *)
C35_SleepScales ==
    [][ ( call.pc = "except" /\ call'.pc = "loop" )
            => time' - time = BaseDelay(call.exc) * call'.count ]_vars

(* C36: traverse yields the items of each page exactly once and in page    *)
(* order, also when a request for a next page or the search of a new slice *)
(* ends with NotFoundError or BadRequestError: the items yielded are in    *)
(* strictly increasing order of search, page and position.                 *)
C36_YieldedOnce ==
    \A i, j \in DOMAIN page.yielded :
        i < j => page.yielded[i] < page.yielded[j]

(* The depth of a folder below the root '.'.                               *)
Depth(folder) ==
    IF folder = Dot
    THEN 0
    ELSE 1 + Cardinality({ k \in DOMAIN folder : folder[k] = "/" })

(* The folders above a directory, as the walker names them.                *)
Ancestors(dir) == { Dot } \cup { quote(p) : p \in { d \in walk.dirs : Under(dir, d) } }

(* The walker can learn of the directory: no listing above it fails.       *)
Served(dir) == walk.failing.folder \notin Ancestors(dir)

(* The folders are listed in order of depth, none twice, and a finished    *)
(* walk has listed the root and every directory that is served and not     *)
(* excluded.                                                               *)
ListedInOrder ==
    /\ \A i, j \in DOMAIN walk.listed :
          i < j => /\ Depth(walk.listed[i]) <= Depth(walk.listed[j])
                   /\ walk.listed[i] # walk.listed[j]
    /\ walk.pc = "end"
          => \A d \in walk.dirs :
                ( Served(d) /\ ~ is_excluded(d) )
                    => \E i \in DOMAIN walk.listed : walk.listed[i] = quote(d)

(* C37: the walker lists directories breadth first, every directory of     *)
(* depth d before any of depth d+1, lists each directory that is not       *)
(* excluded exactly once, and the walk ends.                               *)
C37_BreadthFirstOnce ==
    /\ [] ListedInOrder
    /\ <> ( walk.pc \in { "end", "raised" } )

(* A finished walk that listed the root, two directories of depth 1 and    *)
(* then one of depth 2.                                                    *)
C37_ThreeLevels ==
    /\ walk.pc = "end"
    /\ Len(walk.listed) = 4
    /\ Depth(walk.listed[4]) = 2

(* C38: a listing request that ends in Not Found or Bad Request is taken   *)
(* as an empty listing: nothing is yielded for the folder, nothing is      *)
(* raised, and the walker goes on with the queued folders.                 *)
C38_FailedListingIsEmpty ==
    [][ ( /\ walk.pc = "pop"
          /\ walk.folders # << >>
          /\ Head(walk.folders) = walk.failing.folder )
            => /\ walk'.pc = "for"
               /\ walk'.items = {}
               /\ walk'.yielded = walk.yielded
               /\ walk'.folders = Tail(walk.folders) ]_vars

(* C39: when fetching a file's content fails with BlobTooLargeError the    *)
(* body of the raw download_url becomes the file's content; when that      *)
(* fetch fails too, no exception reaches the worker and the file is not    *)
(* added to the repository's files.                                        *)
C39_FallbackOrDrop ==
    ( /\ eval.fn = "retrieve_content"
      /\ eval.pc = "done"
      /\ eval.first = "BlobTooLargeError" )
        => /\ eval.out.raised = Nil
           /\ eval.out.files = IF eval.fallback = "ok"
                               THEN { << eval.path, "raw" >> }
                               ELSE {}

(* C40: save() without force asks the store for a snapshot iff at least    *)
(* the interval has elapsed since the last snapshot that succeeded, or     *)
(* since construction; a save that succeeds restarts the elapsed time;     *)
(* saveable() changes nothing of the object; and a snapshot taken without  *)
(* force right after another one taken without force comes at least the    *)
(* interval later.                                                         *)
C40_SnapshotsApart ==
    [][ /\ ( snap.pc = "save" /\ ~ snap.force )
              => /\ snap'.outcome \in { "saved", "raised" }
                      <=> time - snap.fresh >= snap.interval
                 /\ ( snap'.outcome = "saved" /\ ~ snap.last.forced )
                      => time - snap.last.at >= snap.interval
        /\ ( snap.pc = "save" /\ snap'.outcome = "saved" )
              => elapse(snap', time') = 0
        /\ snap.pc = "saveable"
              => /\ snap'.lastsave = snap.lastsave
                 /\ snap'.interval = snap.interval
                 /\ time' = time ]_vars

(* Two snapshots in a row were taken by save() without force.              *)
C40_TwoUnforced ==
    /\ snap.pc = "idle"
    /\ snap.outcome = "saved"
    /\ ~ snap.last.forced
    /\ ~ snap.before.forced
    /\ snap.before.at # 0

====
